---- MODULE Spec2Model ----
(***************************************************************************)
(* State-machine model of ContinuousNetworkMonitorService                  *)
(* (src/backend/continuous_monitor_service.py): the start()/stop()         *)
(* lifecycle, the background worker's _monitor_loop, _collect_snapshot,    *)
(* the round-robin selector, the quality classifier, the snapshot history  *)
(* and the two read accessors.                                             *)
(*                                                                         *)
(* Time is an integer clock `now` counted in units of 50 ms, so that every *)
(* duration of the source is a whole number (0.05 s = 1, 0.1 s = 2,        *)
(* 5.0 s = 100, 30 s = 600).  A step of Python code takes no time; time    *)
(* passes only while every thread is blocked (Event.wait, Thread.join,     *)
(* time.sleep, a collaborator call in progress) or idle.                   *)
(*                                                                         *)
(* An optional value (Python's None) is a sequence of length 0 or 1.       *)
(***************************************************************************)
EXTENDS Integers, Sequences, FiniteSets, TLC

\* ---------------------------------------------------------------- bounds
\* Loop iterations the workers may start over the run, and calls of start()
\* and stop() the controlling thread may make, under Spec and FairSpec.
MaxTicks == 2
MaxCalls == 3
\* Loop iterations under SpecRotation (one call of start()).
RotationTicks == 4
\* Loop iterations of each instance under SpecPair, and calls of start()
\* and stop() made on each.
PairTicks == 2
PairCalls == 2
\* Loop iterations under SpecDirectory and under SpecBoundary.
DirectoryTicks == 3
BoundaryTicks == 3
ThresholdTicks == 2
\* Loop iterations under SpecFailures and under SpecRates.
FailureTicks == 6
RateTicks == 3
\* Loop iterations under SpecHistory beyond the history's capacity, and
\* before it.
HistoryExtra == 3
HistoryBefore == 3
\* Largest count a reader passes to get_recent_snapshots.
MaxCount == 2
\* The clock stops advancing here.
MaxTime == 8000
\* Duration of a slow collaborator call: longer than the join timeout, the
\* quality-test interval of a 1 s monitor and the discovery period.
LongCall == 601

\* ------------------------------------------------------ program constants
\* continuous_monitor_service.py:214-215, the history capacity.
Capacity == 1000
\* :232, minimum sleep 0.05 s.
MinSleep == 1
\* :161, start() sleeps 0.1 s after spawning the worker.
StartSettle == 2
\* :184, join timeout 5.0 s.
JoinTimeout == 100
\* :296, device discovery every 30 s.
DiscoveryTTL == 600
\* :89, quality testing is enabled from an interval of 0.5 s.
QualityMinInterval == 10
\* :90, quality_test_interval = max(5.0, monitor_interval * 5).
QualityTestFloor == 100
QualityTestFactor == 5
\* :404-414, classifier thresholds (latency in ms, loss in tenths of a
\* percent, device count).
PoorLatency == 100
FairLatency == 50
GoodLatency == 25
PoorLoss == 50
FairLoss == 20
GoodLoss == 5
CrowdedDevices == 10
\* network_monitor.py:479, a failed single probe is 100 % loss.
TotalLoss == 1000

None == <<>>
Some(v) == <<v>>
IsNone(o) == o = <<>>
Get(o) == o[1]

Max(a, b) == IF a >= b THEN a ELSE b
Min(a, b) == IF a <= b THEN a ELSE b

\* ------------------------------------------------------------ environment
\* monitor_interval values an instance is constructed with: 0.3 s (quality
\* testing disabled; test_continuous_monitor.py:389), 1.0 s (the default)
\* and 31 s (each tick rediscovers).
FastInterval == 6
DefaultInterval == 20
SlowInterval == 620
Intervals == {FastInterval, SlowInterval}

Dev(i, h) == [ip |-> i, hostname |-> h]
\* Lists the discovery probe may return under Spec: none, or two devices
\* out of address order.
DeviceLists ==
    { <<>>,
      <<Dev(2, "b"), Dev(1, "a")>> }
\* ... and under SpecRotation: also the same two addresses in another order
\* and with another hostname, and three devices.
RotationLists ==
    DeviceLists \cup
    { <<Dev(1, "x"), Dev(2, "b")>>,
      <<Dev(3, "c"), Dev(1, "a"), Dev(2, "b")>> }
\* ... and under SpecDirectory: none, two devices, the same two addresses in
\* another order and with another hostname, and a list that repeats an
\* address (a ping thread that outlived its sweep's join timeout,
\* network_monitor.py:168, appends to the next sweep's results, :198).
DirectoryLists ==
    DeviceLists \cup
    { <<Dev(1, "x"), Dev(2, "b")>>,
      <<Dev(1, "a"), Dev(2, "b"), Dev(1, "z")>> }
\* Durations of a collaborator call (discovery, latency probe).
Instant == {0}
Durations == {0, LongCall}
\* Round-trip times in ms a successful probe may report.
Latencies == {20}

\* ------------------------------------------------------------- variables
VARIABLES
    monitor_interval,            \* self.monitor_interval
    is_running,                  \* self.is_running
    shutdown_event,              \* self.shutdown_event (set or not)
    monitor_thread,              \* self.monitor_thread: None or a worker
    snapshots,                   \* self.snapshots
    last_bandwidth_stats,        \* self.last_bandwidth_stats
    device_cache,                \* self.device_cache: devices in insertion
                                 \* order, addresses distinct
    measurement_count,           \* self.measurement_count
    successful_measurements,     \* self.successful_measurements
    last_device_discovery,       \* self.last_device_discovery
    last_quality_test,           \* self.last_quality_test
    quality_test_device_index,   \* self.quality_test_device_index
    last_tested_device_list,     \* self.last_tested_device_list
    now,                         \* time.time()
    wpc,                         \* each worker thread's position
    wloc,                        \* each worker thread's local variables
    wtimer,                      \* each worker's pending deadline
    cpc,                         \* each controlling thread's position
    cloc,                        \* each controlling thread's locals
    ctimer,                      \* each controlling thread's deadline
    recent,                      \* last result of get_recent_snapshots
    status,                      \* last result of get_service_status
    calc,                        \* a direct call of one of the pure
                                 \* functions: its arguments and result
    peer,                        \* a second instance of the service, when
                                 \* one was constructed: its attributes
    hist                         \* history variables of the run (not
                                 \* program state): what was produced,
                                 \* counted, selected and called so far,
                                 \* whether a counter was seen to decrease
                                 \* since start()

svc == <<monitor_interval, is_running, shutdown_event, monitor_thread,
         snapshots, last_bandwidth_stats, device_cache, measurement_count,
         successful_measurements, last_device_discovery, last_quality_test,
         quality_test_device_index, last_tested_device_list>>
vars == <<svc, now, wpc, wloc, wtimer, cpc, cloc, ctimer, recent, status,
          calc, peer, hist>>

\* ------------------------------------------------------- pure functions
\* Python's s[k:] for any integer k (a negative k counts from the end).
PySuffix(s, k) ==
    LET start == IF k < 0 THEN Max(Len(s) + k, 0) ELSE Min(k, Len(s))
    IN  SubSeq(s, start + 1, Len(s))

\* {dev['ip']: dev for dev in devices}, as the list of its values: one entry
\* per address, at the place of the address's first occurrence, holding the
\* device of its last occurrence.
DictValues(devices) ==
    LET firsts == { i \in 1..Len(devices) :
                      \A j \in 1..(i - 1) : devices[j].ip # devices[i].ip }
        lastOf(i) == CHOOSE j \in 1..Len(devices) :
                        /\ devices[j].ip = devices[i].ip
                        /\ \A k \in (j + 1)..Len(devices) :
                              devices[k].ip # devices[i].ip
        nth[n \in 0..Len(devices)] ==
            IF n = 0 THEN 0
            ELSE CHOOSE i \in firsts :
                    /\ i > nth[n - 1]
                    /\ \A j \in firsts : j > nth[n - 1] => i <= j
    IN  [n \in 1..Cardinality(firsts) |-> devices[lastOf(nth[n])]]

\* sorted(devices, key=lambda d: d['ip']): a stable sort by address.
InsertByIp(s, d) ==
    LET k == Cardinality({ i \in 1..Len(s) : s[i].ip <= d.ip })
    IN  SubSeq(s, 1, k) \o <<d>> \o SubSeq(s, k + 1, Len(s))

RECURSIVE SortedByIp(_)
SortedByIp(devices) ==
    IF devices = <<>> THEN <<>>
    ELSE InsertByIp(SortedByIp(SubSeq(devices, 1, Len(devices) - 1)),
                    devices[Len(devices)])

Ips(devices) == [i \in 1..Len(devices) |-> devices[i].ip]
IpSet(devices) == { devices[i].ip : i \in 1..Len(devices) }

\* The selector with line 277 left out: the index is never advanced.
get_next_device_stuck(devices, index, last) ==
    IF devices = <<>>
    THEN [device |-> None, index |-> index, last |-> last, reset |-> FALSE]
    ELSE
      LET sorted_devices == SortedByIp(devices)
          changed == Ips(sorted_devices) # Ips(last)
          index1 == IF changed THEN 0 ELSE index
      IN  [device |-> Some(sorted_devices[index1 + 1]),
           index |-> index1,
           last |-> IF changed THEN sorted_devices ELSE last,
           reset |-> changed]

\* A selector that forgets the rotation when it is given no device.
get_next_device_forgets(devices, index, last) ==
    IF devices = <<>>
    THEN [device |-> None, index |-> 0, last |-> <<>>, reset |-> FALSE]
    ELSE
      LET sorted_devices == SortedByIp(devices)
          changed == Ips(sorted_devices) # Ips(last)
          index1 == IF changed THEN 0 ELSE index
          last1 == IF changed THEN sorted_devices ELSE last
          index2 == IF index1 >= Len(sorted_devices) THEN 0 ELSE index1
      IN  [device |-> Some(sorted_devices[index2 + 1]),
           index |-> (index2 + 1) % Len(sorted_devices),
           last |-> last1,
           reset |-> changed]

\* A selector that advances the cursor without wrapping it.
get_next_device_unwrapped(devices, index, last) ==
    IF devices = <<>>
    THEN [device |-> None, index |-> index, last |-> last, reset |-> FALSE]
    ELSE
      LET sorted_devices == SortedByIp(devices)
          changed == Ips(sorted_devices) # Ips(last)
          index1 == IF changed THEN 0 ELSE index
          last1 == IF changed THEN sorted_devices ELSE last
          index2 == IF index1 >= Len(sorted_devices) THEN 0 ELSE index1
      IN  [device |-> Some(sorted_devices[index2 + 1]),
           index |-> index2 + 1,
           last |-> last1,
           reset |-> changed]

\* _get_next_device_for_quality_test (238-279) on the rotation state
\* (index, last): the device returned (None for an empty list) and the
\* rotation state it leaves.
get_next_device_for_quality_test(devices, index, last) ==
    IF devices = <<>>
    THEN [device |-> None, index |-> index, last |-> last, reset |-> FALSE]
    ELSE
      LET sorted_devices == SortedByIp(devices)
          changed == Ips(sorted_devices) # Ips(last)
          index1 == IF changed THEN 0 ELSE index
          last1 == IF changed THEN sorted_devices ELSE last
          index2 == IF index1 >= Len(sorted_devices) THEN 0 ELSE index1
      IN  [device |-> Some(sorted_devices[index2 + 1]),
           index |-> (index2 + 1) % Len(sorted_devices),
           last |-> last1,
           reset |-> changed]

\* A classifier whose comparisons include the boundary.
QualityNotStrict(avg_latency, avg_packet_loss, device_count) ==
    IF avg_latency = 0 THEN "Unknown"
    ELSE
      LET base_quality ==
            IF avg_packet_loss >= PoorLoss \/ avg_latency >= PoorLatency
              THEN "Poor"
            ELSE IF avg_packet_loss >= FairLoss \/ avg_latency >= FairLatency
              THEN "Fair"
            ELSE IF avg_packet_loss >= GoodLoss \/ avg_latency >= GoodLatency
              THEN "Good"
            ELSE "Excellent"
      IN  IF device_count > CrowdedDevices
          THEN IF base_quality = "Excellent" THEN "Good"
               ELSE IF base_quality = "Good" THEN "Fair"
               ELSE base_quality
          ELSE base_quality

\* A classifier that ignores the device count.
QualityNoDerate(avg_latency, avg_packet_loss, device_count) ==
    IF avg_latency = 0 THEN "Unknown"
    ELSE IF avg_packet_loss > PoorLoss \/ avg_latency > PoorLatency
      THEN "Poor"
    ELSE IF avg_packet_loss > FairLoss \/ avg_latency > FairLatency
      THEN "Fair"
    ELSE IF avg_packet_loss > GoodLoss \/ avg_latency > GoodLatency
      THEN "Good"
    ELSE "Excellent"

\* _calculate_overall_quality (391-420); latency in ms, loss in tenths of a
\* percent.
calculate_overall_quality(avg_latency, avg_packet_loss, device_count) ==
    IF avg_latency = 0 THEN "Unknown"
    ELSE
      LET base_quality ==
            IF avg_packet_loss > PoorLoss \/ avg_latency > PoorLatency
              THEN "Poor"
            ELSE IF avg_packet_loss > FairLoss \/ avg_latency > FairLatency
              THEN "Fair"
            ELSE IF avg_packet_loss > GoodLoss \/ avg_latency > GoodLatency
              THEN "Good"
            ELSE "Excellent"
      IN  IF device_count > CrowdedDevices
          THEN IF base_quality = "Excellent" THEN "Good"
               ELSE IF base_quality = "Good" THEN "Fair"
               ELSE base_quality
          ELSE base_quality

\* get_recent_snapshots (489-499).
get_recent_snapshots(snaps, count) ==
    IF snaps # <<>> THEN PySuffix(snaps, 0 - count) ELSE <<>>

\* An eviction that keeps the oldest samples instead of the newest.
TrimKeepsOldest(snaps) ==
    IF Len(snaps) > Capacity THEN SubSeq(snaps, 1, Capacity) ELSE snaps

\* The eviction of _monitor_loop (214-215).
TrimHistory(snaps) ==
    IF Len(snaps) > Capacity THEN PySuffix(snaps, 0 - Capacity) ELSE snaps

\* enable_quality_testing and quality_test_interval (89-90), fixed at
\* construction.
EnableQualityTestingStrict(interval) == interval > QualityMinInterval
EnableQualityTesting(interval) == interval >= QualityMinInterval
QualityTestInterval(interval) ==
    Max(QualityTestFloor, interval * QualityTestFactor)

\* get_service_status (501-520), the fields the model carries.
get_service_status ==
    [is_running |-> is_running,
     measurement_count |-> measurement_count,
     successful_measurements |-> successful_measurements,
     snapshots_collected |-> Len(snapshots),
     quality_testing_enabled |-> EnableQualityTesting(monitor_interval),
     current_device_index |-> quality_test_device_index,
     devices_in_rotation |-> Len(last_tested_device_list)]

\* n / d rounded to the nearest integer, ties to the even one (Python's
\* round); d > 0.
RoundDiv(n, d) ==
    LET q == n \div d
        r == n - q * d
    IN  IF 2 * r < d THEN q
        ELSE IF 2 * r > d THEN q + 1
        ELSE IF q % 2 = 0 THEN q ELSE q + 1

\* (1024 * 1024), network_monitor.py:399.
BytesPerMb == 1048576
\* Clock units in a second, and hundredths in a unit (round(x, 2)).
UnitsPerSecond == 20
Hundredths == 100
BitsPerByte == 8

\* calculate_bandwidth_usage (network_monitor.py:375-410); the rates and the
\* usage in hundredths (they are rounded to two decimals).
calculate_bandwidth_usage(previous_stats, current_stats) ==
    LET time_diff == current_stats.timestamp - previous_stats.timestamp
        bytes_sent_diff == current_stats.bytes_sent - previous_stats.bytes_sent
        bytes_recv_diff == current_stats.bytes_recv - previous_stats.bytes_recv
    IN  IF time_diff <= 0
        THEN [error |-> "Invalid time difference"]
        ELSE [upload_rate_mbps |->
                  RoundDiv(bytes_sent_diff * BitsPerByte * UnitsPerSecond
                             * Hundredths, time_diff * BytesPerMb),
              download_rate_mbps |->
                  RoundDiv(bytes_recv_diff * BitsPerByte * UnitsPerSecond
                             * Hundredths, time_diff * BytesPerMb),
              total_usage_mb |->
                  RoundDiv((bytes_sent_diff + bytes_recv_diff) * Hundredths,
                           BytesPerMb)]

\* The MonitoringSnapshot built at 372-384.  `id` is the object's identity:
\* the number of snapshots constructed before it, plus one.
MonitoringSnapshot(id, time, devices, usage, latency, loss, quality, ip) ==
    [id |-> id,
     timestamp |-> time,
     device_count |-> Len(devices),
     devices |-> devices,
     total_upload_mbps |-> usage.upload_rate_mbps,
     total_download_mbps |-> usage.download_rate_mbps,
     total_usage_mb |-> usage.total_usage_mb,
     avg_latency_ms |-> latency,
     avg_packet_loss |-> loss,
     overall_quality |-> quality,
     tested_device_ip |-> ip]

\* The estimate of 366-369, used in a tick that runs no quality test.
UntestedQuality(devices) ==
    IF devices # <<>>
    THEN IF Len(devices) <= CrowdedDevices THEN "Good" ELSE "Fair"
    ELSE "Unknown"

NoUsage ==
    [upload_rate_mbps |-> 0, download_rate_mbps |-> 0, total_usage_mb |-> 0]

\* A dict.get with another default.
DictGetOne(d, key, default) == IF key \in DOMAIN d THEN d[key] ELSE 1

\* dict.get(key, default).
DictGet(d, key, default) == IF key \in DOMAIN d THEN d[key] ELSE default

\* Lines 319-321: the three figures a tick takes from the dictionary
\* calculate_bandwidth_usage returned.
UsageFigures(usage) ==
    [upload_rate_mbps |-> DictGet(usage, "upload_rate_mbps", 0),
     download_rate_mbps |-> DictGet(usage, "download_rate_mbps", 0),
     total_usage_mb |-> DictGet(usage, "total_usage_mb", 0)]

\* A worker's locals between two ticks.
WorkerLocals ==
    [loop_start_time |-> 0, current_time |-> 0, devices |-> <<>>,
     usage |-> NoUsage, device_to_test |-> None, snapshot |-> None,
     tmp |-> 0]

\* ----------------------------------------------------------------- threads
\* Worker threads: start() creates one per successful call.
Workers == 1..MaxCalls
\* The counter reader's possible readings (bytes sent, bytes received).
Readings == { <<1000, 2000>> }
\* The same for SpecRates: counters that stand still, grow by a few
\* kilobytes, and fall back (an interface reset).
RateReadings == { <<1000, 2000>>, <<2000, 2200>>, <<8000, 2200>>,
                  <<500, 2000>> }

flags == <<monitor_interval, is_running, shutdown_event, monitor_thread>>
counts == <<measurement_count, successful_measurements>>
directory == <<device_cache, last_device_discovery>>
rotation == <<quality_test_device_index, last_tested_device_list>>
control == <<cpc, cloc, ctimer>>
reads == <<recent, status, calc, peer>>

Alive(w) == wpc[w] \notin {"unborn", "done"}

\* No reader is holding a result: a reader's call and its dropping the result
\* are taken together (what a reader holds has no effect on the service).
ReaderIdle == IsNone(recent) /\ IsNone(status)
\* Thread w, or c, is at position p and may take its step.
At(w, p) == ReaderIdle /\ wpc[w] = p
CallerAt(c, p) == ReaderIdle /\ cpc[c] = p

\* ------------------------------------------------- _monitor_loop (195-236)
\* A loop condition that reads the running flag only.
LoopIgnoresEvent(w, limit) ==
    /\ At(w, "loop")
    /\ IF is_running
       THEN /\ hist.ticks < limit
            /\ wpc' = [wpc EXCEPT ![w] = "collect"]
            /\ wloc' = [wloc EXCEPT ![w].loop_start_time = now]
            /\ hist' = [hist EXCEPT !.ticks = @ + 1]
       ELSE /\ wpc' = [wpc EXCEPT ![w] = "done"]
            /\ UNCHANGED <<wloc, hist>>
    /\ UNCHANGED <<svc, now, wtimer, control, reads>>

\* Line 202-203: the loop condition; a new iteration records its start time.
\* `limit` bounds the iterations started over the run.
LoopCheck(w, limit) ==
    /\ At(w, "loop")
    /\ IF is_running /\ ~shutdown_event
       THEN /\ hist.ticks < limit
            /\ wpc' = [wpc EXCEPT ![w] = "collect"]
            /\ wloc' = [wloc EXCEPT ![w].loop_start_time = now]
            /\ hist' = [hist EXCEPT !.ticks = @ + 1]
       ELSE /\ wpc' = [wpc EXCEPT ![w] = "done"]
            /\ UNCHANGED <<wloc, hist>>
    /\ UNCHANGED <<svc, now, wtimer, control, reads>>

\* Lines 291-306: current_time is taken, and the device list is either
\* rediscovered (the call takes `d` units) or read from the cache.
CollectBegin(w, durations) ==
    /\ At(w, "collect")
    /\ IF \/ IsNone(last_device_discovery)
          \/ now - Get(last_device_discovery) > DiscoveryTTL
       THEN \E d \in durations :
              /\ now + d <= MaxTime
              /\ wtimer' = [wtimer EXCEPT ![w] = now + d]
              /\ wpc' = [wpc EXCEPT ![w] = "discover"]
              /\ wloc' = [wloc EXCEPT ![w].current_time = now]
       ELSE /\ wpc' = [wpc EXCEPT ![w] = "bandwidth"]
            /\ wloc' = [wloc EXCEPT ![w].current_time = now,
                                    ![w].devices = device_cache]
            /\ UNCHANGED wtimer
    /\ UNCHANGED <<svc, now, control, reads, hist>>

\* Lines 299-301: discover_devices() returns a list.
DiscoverReturn(w, lists) ==
    /\ At(w, "discover")
    /\ now >= wtimer[w]
    /\ \E devices \in lists :
         /\ device_cache' = DictValues(devices)
         /\ wloc' = [wloc EXCEPT ![w].devices = devices]
    /\ last_device_discovery' = Some(wloc[w].current_time)
    /\ wpc' = [wpc EXCEPT ![w] = "bandwidth"]
    /\ UNCHANGED <<flags, snapshots, last_bandwidth_stats, counts,
                   last_quality_test, rotation, now, wtimer, control, reads,
                   hist>>

\* A discovery failure that fails the tick: _collect_snapshot returns None.
DiscoverRaiseFails(w) ==
    /\ At(w, "discover")
    /\ now >= wtimer[w]
    /\ wloc' = [wloc EXCEPT ![w].snapshot = None]
    /\ wpc' = [wpc EXCEPT ![w] = "count_read"]
    /\ UNCHANGED <<svc, now, wtimer, control, reads, hist>>

\* Lines 302-304: discover_devices() raises; the cached devices are used.
DiscoverRaise(w) ==
    /\ At(w, "discover")
    /\ now >= wtimer[w]
    /\ wloc' = [wloc EXCEPT ![w].devices = device_cache]
    /\ wpc' = [wpc EXCEPT ![w] = "bandwidth"]
    /\ UNCHANGED <<svc, now, wtimer, control, reads, hist>>

\* Lines 371-386 for a tick that is done measuring.
Built(w, usage, latency, loss, quality, tested) ==
    MonitoringSnapshot(hist.produced + 1, wloc[w].current_time,
                       wloc[w].devices, usage, latency, loss, quality,
                       tested)

\* Lines 309-337 (and 366-386 when no quality test is due): the counters are
\* read, the rates computed against the baseline, the baseline replaced.
Bandwidth(w, readings) ==
    /\ At(w, "bandwidth")
    /\ \E r \in readings :
         LET current_bandwidth_stats ==
               [bytes_sent |-> r[1], bytes_recv |-> r[2], timestamp |-> now]
             usage ==
               IF IsNone(last_bandwidth_stats) THEN NoUsage
               ELSE UsageFigures(
                       calculate_bandwidth_usage(Get(last_bandwidth_stats),
                                                 current_bandwidth_stats))
             due ==
               /\ EnableQualityTesting(monitor_interval)
               /\ \/ IsNone(last_quality_test)
                  \/ wloc[w].current_time - Get(last_quality_test)
                       > QualityTestInterval(monitor_interval)
             rollback ==
               \/ hist.rollback
               \/ /\ ~IsNone(last_bandwidth_stats)
                  /\ \/ r[1] < Get(last_bandwidth_stats).bytes_sent
                     \/ r[2] < Get(last_bandwidth_stats).bytes_recv
         IN  /\ last_bandwidth_stats' = Some(current_bandwidth_stats)
             /\ IF due
                THEN /\ wloc' = [wloc EXCEPT ![w].usage = usage]
                     /\ wpc' = [wpc EXCEPT ![w] = "select"]
                     /\ hist' = [hist EXCEPT !.rollback = rollback]
                ELSE /\ wloc' = [wloc EXCEPT
                           ![w].usage = usage,
                           ![w].snapshot =
                              Some(Built(w, usage, 0, 0,
                                         UntestedQuality(wloc[w].devices),
                                         None))]
                     /\ wpc' = [wpc EXCEPT ![w] = "append"]
                     /\ hist' = [hist EXCEPT !.produced = @ + 1,
                                             !.rollback = rollback]
    /\ UNCHANGED <<flags, snapshots, device_cache, counts,
                   last_device_discovery, last_quality_test, rotation, now,
                   wtimer, control, reads>>

\* A failed counter read that also drops the baseline.
BandwidthRaiseClears(w) ==
    /\ At(w, "bandwidth")
    /\ last_bandwidth_stats' = None
    /\ wloc' = [wloc EXCEPT ![w].snapshot = None]
    /\ wpc' = [wpc EXCEPT ![w] = "count_read"]
    /\ UNCHANGED <<flags, snapshots, directory, counts, last_quality_test,
                   rotation, now, wtimer, control, reads, hist>>

\* Line 309 raising: _collect_snapshot returns None (388-389) and the loop
\* goes to line 222, then 224.
BandwidthRaise(w) ==
    /\ At(w, "bandwidth")
    /\ wloc' = [wloc EXCEPT ![w].snapshot = None]
    /\ wpc' = [wpc EXCEPT ![w] = "count_read"]
    /\ UNCHANGED <<svc, now, wtimer, control, reads, hist>>

\* Lines 340-342: the selector is called; with no device to test the
\* snapshot is built at once (365, 372-386), else the probe is started.
Select(w, durations) ==
    /\ At(w, "select")
    /\ LET r == get_next_device_for_quality_test(
                   wloc[w].devices, quality_test_device_index,
                   last_tested_device_list)
       IN  /\ quality_test_device_index' = r.index
           /\ last_tested_device_list' = r.last
           /\ IF IsNone(r.device)
              THEN /\ wloc' = [wloc EXCEPT ![w].device_to_test = None,
                          ![w].snapshot =
                             Some(Built(w, wloc[w].usage, 0, 0,
                                        calculate_overall_quality(
                                           0, 0, Len(wloc[w].devices)),
                                        None))]
                   /\ wpc' = [wpc EXCEPT ![w] = "append"]
                   /\ hist' = [hist EXCEPT !.produced = @ + 1]
                   /\ UNCHANGED wtimer
              ELSE \E d \in durations :
                     /\ now + d <= MaxTime
                     /\ wtimer' = [wtimer EXCEPT ![w] = now + d]
                     /\ wloc' = [wloc EXCEPT ![w].device_to_test = r.device]
                     /\ wpc' = [wpc EXCEPT ![w] = "probe"]
                     /\ hist' = [hist EXCEPT
                           !.selected =
                              IF r.reset THEN <<Get(r.device).ip>>
                              ELSE Append(@, Get(r.device).ip)]
    /\ UNCHANGED <<flags, snapshots, last_bandwidth_stats, device_cache,
                   counts, last_device_discovery, last_quality_test, now,
                   control, reads>>

\* Lines 348-355, 365: monitor_device_connectivity(ip, samples=1) returns;
\* `latency` is 0 with 100 % loss when the single ping got no answer
\* (network_monitor.py:451-479).
ProbeReturn(w, latencies) ==
    /\ At(w, "probe")
    /\ now >= wtimer[w]
    /\ \E latency \in latencies \cup {0} :
         LET loss == IF latency = 0 THEN TotalLoss ELSE 0
         IN  wloc' = [wloc EXCEPT ![w].snapshot =
                        Some(Built(w, wloc[w].usage, latency, loss,
                                   calculate_overall_quality(
                                      latency, loss, Len(wloc[w].devices)),
                                   Some(Get(wloc[w].device_to_test).ip)))]
    /\ last_quality_test' = Some(wloc[w].current_time)
    /\ wpc' = [wpc EXCEPT ![w] = "append"]
    /\ hist' = [hist EXCEPT !.produced = @ + 1]
    /\ UNCHANGED <<flags, snapshots, last_bandwidth_stats, directory, counts,
                   rotation, now, wtimer, control, reads>>

\* A failed probe that puts the cursor back on the device it failed on.
ProbeRaiseRetries(w) ==
    /\ At(w, "probe")
    /\ now >= wtimer[w]
    /\ wloc' = [wloc EXCEPT ![w].snapshot =
                  Some(Built(w, wloc[w].usage, 0, 0,
                             calculate_overall_quality(
                                0, 0, Len(wloc[w].devices)),
                             None))]
    /\ quality_test_device_index' =
          (quality_test_device_index + Len(last_tested_device_list) - 1)
             % Len(last_tested_device_list)
    /\ wpc' = [wpc EXCEPT ![w] = "append"]
    /\ hist' = [hist EXCEPT !.produced = @ + 1]
    /\ UNCHANGED <<flags, snapshots, last_bandwidth_stats, directory, counts,
                   last_quality_test, last_tested_device_list, now, wtimer,
                   control, reads>>

\* Lines 359-365: the probe raises; the tick goes on without a measurement.
ProbeRaise(w) ==
    /\ At(w, "probe")
    /\ now >= wtimer[w]
    /\ wloc' = [wloc EXCEPT ![w].snapshot =
                  Some(Built(w, wloc[w].usage, 0, 0,
                             calculate_overall_quality(
                                0, 0, Len(wloc[w].devices)),
                             None))]
    /\ wpc' = [wpc EXCEPT ![w] = "append"]
    /\ hist' = [hist EXCEPT !.produced = @ + 1]
    /\ UNCHANGED <<svc, now, wtimer, control, reads>>

\* An insertion at the front of the history instead of its end.
InsertAtFront(w) ==
    /\ At(w, "append")
    /\ snapshots' = <<Get(wloc[w].snapshot)>> \o snapshots
    /\ wpc' = [wpc EXCEPT ![w] = "trim"]
    /\ hist' = [hist EXCEPT !.inserted = @ + 1]
    /\ UNCHANGED <<flags, last_bandwidth_stats, directory, counts,
                   last_quality_test, rotation, now, wloc, wtimer, control,
                   reads>>

\* Line 211.
AppendSnapshot(w) ==
    /\ At(w, "append")
    /\ snapshots' = Append(snapshots, Get(wloc[w].snapshot))
    /\ wpc' = [wpc EXCEPT ![w] = "trim"]
    /\ hist' = [hist EXCEPT !.inserted = @ + 1]
    /\ UNCHANGED <<flags, last_bandwidth_stats, directory, counts,
                   last_quality_test, rotation, now, wloc, wtimer, control,
                   reads>>

\* Lines 214-215.
Trim(w) ==
    /\ At(w, "trim")
    /\ snapshots' = TrimHistory(snapshots)
    /\ wpc' = [wpc EXCEPT ![w] = "display"]
    /\ UNCHANGED <<flags, last_bandwidth_stats, directory, counts,
                   last_quality_test, rotation, now, wloc, wtimer, control,
                   reads, hist>>

\* Line 218, _display_realtime_data; its line 433 computes the success rate
\* as successful_measurements / measurement_count * 100 if
\* measurement_count > 0 else 0.  The test reads self.measurement_count ...
DisplayTest(w) ==
    /\ At(w, "display")
    /\ wpc' = [wpc EXCEPT ![w] = IF measurement_count > 0
                                 THEN "display_rate" ELSE "success_read"]
    /\ UNCHANGED <<svc, now, wloc, wtimer, control, reads, hist>>

\* ... and the division reads it again: when it is 0 by then, the
\* ZeroDivisionError leaves the try block for lines 226-228.
DisplayRate(w) ==
    /\ At(w, "display_rate")
    /\ wpc' = [wpc EXCEPT ![w] = IF measurement_count = 0
                                 THEN "count_read" ELSE "success_read"]
    /\ UNCHANGED <<svc, now, wloc, wtimer, control, reads, hist>>

\* Line 220, self.successful_measurements += 1: the read ...
SuccessRead(w) ==
    /\ At(w, "success_read")
    /\ wloc' = [wloc EXCEPT ![w].tmp = successful_measurements]
    /\ wpc' = [wpc EXCEPT ![w] = "success_write"]
    /\ UNCHANGED <<svc, now, wtimer, control, reads, hist>>

\* ... and the write.
SuccessWrite(w) ==
    /\ At(w, "success_write")
    /\ successful_measurements' = wloc[w].tmp + 1
    /\ wpc' = [wpc EXCEPT ![w] = "count_read"]
    /\ hist' = [hist EXCEPT !.succeeded = @ + 1]
    /\ UNCHANGED <<flags, snapshots, last_bandwidth_stats, directory,
                   measurement_count, last_quality_test, rotation, now, wloc,
                   wtimer, control, reads>>

\* Line 224 (228 after an exception), self.measurement_count += 1: the
\* read ...
CountRead(w) ==
    /\ At(w, "count_read")
    /\ wloc' = [wloc EXCEPT ![w].tmp = measurement_count]
    /\ wpc' = [wpc EXCEPT ![w] = "count_write"]
    /\ UNCHANGED <<svc, now, wtimer, control, reads, hist>>

\* ... and the write.
CountWrite(w) ==
    /\ At(w, "count_write")
    /\ measurement_count' = wloc[w].tmp + 1
    /\ wpc' = [wpc EXCEPT ![w] = "sleep"]
    /\ hist' = [hist EXCEPT !.counted = @ + 1]
    /\ UNCHANGED <<flags, snapshots, last_bandwidth_stats, directory,
                   successful_measurements, last_quality_test, rotation, now,
                   wloc, wtimer, control, reads>>

\* A sleep time without the minimum.
SleepRemainder(interval, loop_duration) == interval - loop_duration

\* Line 232: max(0.05, monitor_interval - loop_duration).
SleepTime(interval, loop_duration) == Max(MinSleep, interval - loop_duration)

\* Lines 231-236: the sleep time is computed and the wait on the shutdown
\* event begins.
BeginWait(w) ==
    /\ At(w, "sleep")
    /\ wtimer' = [wtimer EXCEPT ![w] =
                    now + SleepTime(monitor_interval,
                                    now - wloc[w].loop_start_time)]
    /\ wloc' = [wloc EXCEPT ![w] = WorkerLocals]
    /\ wpc' = [wpc EXCEPT ![w] = "wait"]
    /\ UNCHANGED <<svc, now, control, reads, hist>>

\* A wait the event does not interrupt (time.sleep).
SleepOver(w) == now >= wtimer[w]

\* Event.wait(timeout) returns once the event is set or the timeout is over.
WaitOver(w) == shutdown_event \/ now >= wtimer[w]

\* Line 236 returning.
EndWait(w) ==
    /\ At(w, "wait")
    /\ WaitOver(w)
    /\ wpc' = [wpc EXCEPT ![w] = "loop"]
    /\ UNCHANGED <<svc, now, wloc, wtimer, control, reads, hist>>

\* ------------------------------------------------------- start() (107-163)
\* Threads that may call start() and stop().
Callers == {"main", "other"}

workers == <<wpc, wloc, wtimer>>

Returned(c, op, value) ==
    /\ cpc' = [cpc EXCEPT ![c] = "idle"]
    /\ cloc' = [cloc EXCEPT ![c] = [op |-> op, ret |-> Some(value)]]

\* A start() without the check of lines 114-116.
StartUnchecked(c, limit) ==
    /\ CallerAt(c, "idle")
    /\ hist.calls < limit
    /\ hist' = [hist EXCEPT !.calls = @ + 1]
    /\ cpc' = [cpc EXCEPT ![c] = "start_run"]
    /\ cloc' = [cloc EXCEPT ![c] = [op |-> "start", ret |-> None]]
    /\ UNCHANGED <<svc, now, workers, ctimer, reads>>

\* Lines 114-116: start() is called; on a running instance it returns False.
\* `limit` bounds the calls made over the run.
StartCheck(c, limit) ==
    /\ CallerAt(c, "idle")
    /\ hist.calls < limit
    /\ hist' = [hist EXCEPT !.calls = @ + 1]
    /\ IF is_running
       THEN Returned(c, "start", FALSE)
       ELSE /\ cpc' = [cpc EXCEPT ![c] = "start_run"]
            /\ cloc' = [cloc EXCEPT ![c] = [op |-> "start", ret |-> None]]
    /\ UNCHANGED <<svc, now, workers, ctimer, reads>>

\* A start() that leaves the running flag as it is.
StartRunForgets(c) ==
    /\ CallerAt(c, "start_run")
    /\ cpc' = [cpc EXCEPT ![c] = "start_count"]
    /\ UNCHANGED <<svc, now, workers, cloc, ctimer, reads, hist>>

\* Line 128.
StartRun(c) ==
    /\ CallerAt(c, "start_run")
    /\ is_running' = TRUE
    /\ cpc' = [cpc EXCEPT ![c] = "start_count"]
    /\ UNCHANGED <<monitor_interval, shutdown_event, monitor_thread,
                   snapshots, last_bandwidth_stats, directory, counts,
                   last_quality_test, rotation, now, workers, cloc, ctimer,
                   reads, hist>>

\* Line 130.
StartCount(c) ==
    /\ CallerAt(c, "start_count")
    /\ measurement_count' = 0
    /\ cpc' = [cpc EXCEPT ![c] = "start_success"]
    /\ UNCHANGED <<flags, snapshots, last_bandwidth_stats, directory,
                   successful_measurements, last_quality_test, rotation, now,
                   workers, cloc, ctimer, reads, hist>>

\* Lines 131-136: the success counter is reset and the initial discovery is
\* called; it takes `d` units.
StartSuccess(c, durations) ==
    /\ CallerAt(c, "start_success")
    /\ successful_measurements' = 0
    /\ \E d \in durations :
         /\ now + d <= MaxTime
         /\ ctimer' = [ctimer EXCEPT ![c] = now + d]
    /\ cpc' = [cpc EXCEPT ![c] = "start_discover"]
    /\ UNCHANGED <<flags, snapshots, last_bandwidth_stats, directory,
                   measurement_count, last_quality_test, rotation, now,
                   workers, cloc, reads, hist>>

\* Lines 136-139: the initial discovery returns a list.
StartDiscoverReturn(c, lists) ==
    /\ CallerAt(c, "start_discover")
    /\ now >= ctimer[c]
    /\ \E devices \in lists : device_cache' = DictValues(devices)
    /\ last_device_discovery' = Some(now)
    /\ cpc' = [cpc EXCEPT ![c] = "start_baseline"]
    /\ UNCHANGED <<flags, snapshots, last_bandwidth_stats, counts,
                   last_quality_test, rotation, now, workers, cloc, ctimer,
                   reads, hist>>

\* Lines 140-143: the initial discovery raises.
StartDiscoverRaise(c) ==
    /\ CallerAt(c, "start_discover")
    /\ now >= ctimer[c]
    /\ device_cache' = <<>>
    /\ last_device_discovery' = Some(now)
    /\ cpc' = [cpc EXCEPT ![c] = "start_baseline"]
    /\ UNCHANGED <<flags, snapshots, last_bandwidth_stats, counts,
                   last_quality_test, rotation, now, workers, cloc, ctimer,
                   reads, hist>>

\* Lines 146-148: the baseline counters are read.
StartBaseline(c, readings) ==
    /\ CallerAt(c, "start_baseline")
    /\ \E r \in readings :
         last_bandwidth_stats' =
            Some([bytes_sent |-> r[1], bytes_recv |-> r[2],
                  timestamp |-> now])
    /\ cpc' = [cpc EXCEPT ![c] = "start_spawn"]
    /\ hist' = [hist EXCEPT !.rollback = FALSE]
    /\ UNCHANGED <<flags, snapshots, directory, counts, last_quality_test,
                   rotation, now, workers, cloc, ctimer, reads>>

\* Lines 149-151: the counter read raises.
StartBaselineRaise(c) ==
    /\ CallerAt(c, "start_baseline")
    /\ last_bandwidth_stats' = None
    /\ cpc' = [cpc EXCEPT ![c] = "start_spawn"]
    /\ hist' = [hist EXCEPT !.rollback = FALSE]
    /\ UNCHANGED <<flags, snapshots, directory, counts, last_quality_test,
                   rotation, now, workers, cloc, ctimer, reads>>

\* Lines 154-161: a new worker thread is created and started, and start()
\* sleeps 0.1 s.
StartSpawn(c) ==
    /\ CallerAt(c, "start_spawn")
    /\ LET w == hist.spawned + 1
       IN  /\ monitor_thread' = Some(w)
           /\ wpc' = [wpc EXCEPT ![w] = "loop"]
    /\ hist' = [hist EXCEPT !.spawned = @ + 1]
    /\ ctimer' = [ctimer EXCEPT ![c] = now + StartSettle]
    /\ cpc' = [cpc EXCEPT ![c] = "start_sleep"]
    /\ UNCHANGED <<monitor_interval, is_running, shutdown_event, snapshots,
                   last_bandwidth_stats, directory, counts,
                   last_quality_test, rotation, now, wloc, wtimer, cloc,
                   reads>>

\* Line 163.
StartReturn(c) ==
    /\ CallerAt(c, "start_sleep")
    /\ now >= ctimer[c]
    /\ Returned(c, "start", TRUE)
    /\ UNCHANGED <<svc, now, workers, ctimer, reads, hist>>

\* -------------------------------------------------------- stop() (165-193)
\* A stop() without the check of lines 172-174.
StopUnchecked(c, limit) ==
    /\ CallerAt(c, "idle")
    /\ hist.calls < limit
    /\ hist' = [hist EXCEPT !.calls = @ + 1]
    /\ cpc' = [cpc EXCEPT ![c] = "stop_run"]
    /\ cloc' = [cloc EXCEPT ![c] = [op |-> "stop", ret |-> None]]
    /\ UNCHANGED <<svc, now, workers, ctimer, reads>>

\* Lines 172-174: stop() is called; on a stopped instance it returns False.
StopCheck(c, limit) ==
    /\ CallerAt(c, "idle")
    /\ hist.calls < limit
    /\ hist' = [hist EXCEPT !.calls = @ + 1]
    /\ IF ~is_running
       THEN Returned(c, "stop", FALSE)
       ELSE /\ cpc' = [cpc EXCEPT ![c] = "stop_run"]
            /\ cloc' = [cloc EXCEPT ![c] = [op |-> "stop", ret |-> None]]
    /\ UNCHANGED <<svc, now, workers, ctimer, reads>>

\* Line 179.
StopRun(c) ==
    /\ CallerAt(c, "stop_run")
    /\ is_running' = FALSE
    /\ cpc' = [cpc EXCEPT ![c] = "stop_set"]
    /\ UNCHANGED <<monitor_interval, shutdown_event, monitor_thread,
                   snapshots, last_bandwidth_stats, directory, counts,
                   last_quality_test, rotation, now, workers, cloc, ctimer,
                   reads, hist>>

\* What the run remembers of the moment the shutdown event is set: where the
\* monitor thread was, whether it was in its end-of-tick wait, how much of
\* the wait was left, the iterations started so far and the time.
StopContext ==
    LET t == monitor_thread
        waiting == ~IsNone(t) /\ wpc[Get(t)] = "wait"
    IN  [pc |-> IF IsNone(t) THEN "unborn" ELSE wpc[Get(t)],
         waiting |-> waiting,
         remaining |-> IF waiting THEN wtimer[Get(t)] - now ELSE 0,
         ticks |-> hist.ticks,
         at |-> now]

\* Line 180.
StopSet(c) ==
    /\ CallerAt(c, "stop_set")
    /\ shutdown_event' = TRUE
    /\ hist' = [hist EXCEPT !.stop_set = Some(StopContext),
                            !.stop_end = None]
    /\ cpc' = [cpc EXCEPT ![c] = "stop_join"]
    /\ UNCHANGED <<monitor_interval, is_running, monitor_thread, snapshots,
                   last_bandwidth_stats, directory, counts,
                   last_quality_test, rotation, now, workers, cloc, ctimer,
                   reads>>

\* What the run remembers of stop() returning True.
StopEnd ==
    [alive |-> ~IsNone(monitor_thread) /\ Alive(Get(monitor_thread)),
     ticks |-> hist.ticks,
     at |-> now]

\* Lines 183-184: join(timeout=5.0) is called on a live monitor thread;
\* with none, stop() prints its statistics (191) and returns True (193).
StopJoin(c) ==
    /\ CallerAt(c, "stop_join")
    /\ IF ~IsNone(monitor_thread) /\ Alive(Get(monitor_thread))
       THEN /\ ctimer' = [ctimer EXCEPT ![c] = now + JoinTimeout]
            /\ cpc' = [cpc EXCEPT ![c] = "stop_joining"]
            /\ UNCHANGED <<cloc, hist>>
       ELSE /\ Returned(c, "stop", TRUE)
            /\ hist' = [hist EXCEPT !.stop_end = Some(StopEnd)]
            /\ UNCHANGED ctimer
    /\ UNCHANGED <<svc, now, workers, reads>>

\* Thread.join(timeout) returns once the thread has finished or the timeout
\* is over.
JoinOver(c) == ~Alive(Get(monitor_thread)) \/ now >= ctimer[c]

\* Lines 184-193: join returns, the statistics are printed, stop() returns
\* True.
StopReturn(c) ==
    /\ CallerAt(c, "stop_joining")
    /\ JoinOver(c)
    /\ Returned(c, "stop", TRUE)
    /\ hist' = [hist EXCEPT !.stop_end = Some(StopEnd)]
    /\ UNCHANGED <<svc, now, workers, ctimer, reads>>

\* ---------------------------------------------------------------- readers
\* A reader calls get_recent_snapshots(count) (489-499) ...
ReadRecent ==
    /\ IsNone(recent)
    /\ IsNone(status)
    /\ \E count \in 0..MaxCount :
         recent' = Some([count |-> count,
                         result |-> get_recent_snapshots(snapshots, count)])
    /\ UNCHANGED <<svc, now, workers, control, status, calc, peer, hist>>

\* ... or get_service_status() (501-520) ...
ReadStatus ==
    /\ IsNone(recent)
    /\ IsNone(status)
    /\ status' = Some(get_service_status)
    /\ UNCHANGED <<svc, now, workers, control, recent, calc, peer, hist>>

\* ... and drops the result.
ReaderDone ==
    /\ ~(IsNone(recent) /\ IsNone(status))
    /\ recent' = None
    /\ status' = None
    /\ UNCHANGED <<svc, now, workers, control, calc, peer, hist>>

\* ------------------------------------------------------------------- time
\* A thread that can take a step now.
WorkerReady(w, limit) ==
    CASE wpc[w] \in {"unborn", "done"} -> FALSE
      [] wpc[w] = "loop" -> (is_running /\ ~shutdown_event)
                               => hist.ticks < limit
      [] wpc[w] \in {"discover", "probe"} -> now >= wtimer[w]
      [] wpc[w] = "wait" -> WaitOver(w)
      [] OTHER -> TRUE

CallerReady(c) ==
    CASE cpc[c] = "idle" -> FALSE
      [] cpc[c] \in {"start_discover", "start_sleep"} -> now >= ctimer[c]
      [] cpc[c] = "stop_joining" -> JoinOver(c)
      [] OTHER -> TRUE

\* The deadlines of the blocked threads.
Deadlines ==
    { wtimer[w] : w \in { x \in Workers :
                            wpc[x] \in {"discover", "probe", "wait"} } }
    \cup
    { ctimer[c] : c \in { x \in Callers :
                            cpc[x] \in {"start_discover", "start_sleep",
                                        "stop_joining"} } }

\* Time passes, to the next deadline, when no thread can take a step.
Advance(limit) ==
    /\ ReaderIdle
    /\ \A w \in Workers : ~WorkerReady(w, limit)
    /\ \A c \in Callers : ~CallerReady(c)
    /\ Deadlines # {}
    /\ now' = CHOOSE t \in Deadlines : \A u \in Deadlines : t <= u
    /\ now' <= MaxTime
    /\ UNCHANGED <<svc, workers, control, reads, hist>>

\* ---------------------------------------------------------- specification
Constructed(intervals) ==
    /\ monitor_interval \in intervals
    /\ is_running = FALSE
    /\ shutdown_event = FALSE
    /\ monitor_thread = None
    /\ snapshots = <<>>
    /\ last_bandwidth_stats = None
    /\ device_cache = <<>>
    /\ measurement_count = 0
    /\ successful_measurements = 0
    /\ last_device_discovery = None
    /\ last_quality_test = None
    /\ quality_test_device_index = 0
    /\ last_tested_device_list = <<>>
    /\ now = 0
    /\ wpc = [w \in Workers |-> "unborn"]
    /\ wloc = [w \in Workers |-> WorkerLocals]
    /\ wtimer = [w \in Workers |-> 0]
    /\ cpc = [c \in Callers |-> "idle"]
    /\ cloc = [c \in Callers |-> [op |-> "none", ret |-> None]]
    /\ ctimer = [c \in Callers |-> 0]
    /\ recent = None
    /\ status = None
    /\ hist = [ticks |-> 0, produced |-> 0, inserted |-> 0, succeeded |-> 0,
               counted |-> 0, calls |-> 0, spawned |-> 0, selected |-> <<>>,
               rollback |-> FALSE, stop_set |-> None, stop_end |-> None]

InitWith(intervals) ==
    Constructed(intervals) /\ calc = None /\ peer = None

Init == InitWith(Intervals)

WorkerStep(w) ==
    \/ LoopCheck(w, MaxTicks)
    \/ CollectBegin(w, Durations)
    \/ DiscoverReturn(w, DeviceLists)
    \/ DiscoverRaise(w)
    \/ Bandwidth(w, Readings)
    \/ BandwidthRaise(w)
    \/ Select(w, Durations)
    \/ ProbeReturn(w, Latencies)
    \/ ProbeRaise(w)
    \/ AppendSnapshot(w)
    \/ Trim(w)
    \/ DisplayTest(w)
    \/ DisplayRate(w)
    \/ SuccessRead(w)
    \/ SuccessWrite(w)
    \/ CountRead(w)
    \/ CountWrite(w)
    \/ BeginWait(w)
    \/ EndWait(w)

\* The steps of a call of start() or stop() in progress.
CallerProgress(c) ==
    \/ StartRun(c)
    \/ StartCount(c)
    \/ StartSuccess(c, Durations)
    \/ StartDiscoverReturn(c, DeviceLists)
    \/ StartDiscoverRaise(c)
    \/ StartBaseline(c, Readings)
    \/ StartBaselineRaise(c)
    \/ StartSpawn(c)
    \/ StartReturn(c)
    \/ StopRun(c)
    \/ StopSet(c)
    \/ StopJoin(c)
    \/ StopReturn(c)

CallerStep(c) ==
    \/ StartCheck(c, MaxCalls)
    \/ StopCheck(c, MaxCalls)
    \/ CallerProgress(c)

ReaderStep == ReadRecent \/ ReadStatus \/ ReaderDone

\* One instance, one controlling thread calling start() and stop() in any
\* order, the workers it creates, and readers.
Next ==
    \/ ReaderStep
    \/ \E w \in Workers : WorkerStep(w)
    \/ CallerStep("main")
    \/ Advance(MaxTicks)

Spec == Init /\ [][Next]_vars

\* The same without readers, every thread scheduled fairly: a thread that can
\* take a step eventually takes it, and a collaborator call returns.
NextFair ==
    \/ \E w \in Workers : WorkerStep(w)
    \/ CallerStep("main")
    \/ Advance(MaxTicks)

FairSpec ==
    /\ Init
    /\ [][NextFair]_vars
    /\ \A w \in Workers : WF_vars(WorkerStep(w))
    /\ WF_vars(CallerProgress("main"))
    /\ WF_vars(Advance(MaxTicks))

\* One instance with the default interval, started once and never stopped,
\* on a network whose membership changes and whose counters can always be
\* read; every probe is slow, so that each tick is due for a quality test
\* and a rediscovery.
InitRotation == InitWith({DefaultInterval})

NextRotation ==
    \/ \E w \in Workers :
         \/ LoopCheck(w, RotationTicks)
         \/ CollectBegin(w, Instant)
         \/ DiscoverReturn(w, RotationLists)
         \/ DiscoverRaise(w)
         \/ Bandwidth(w, Readings)
         \/ Select(w, {LongCall})
         \/ ProbeReturn(w, Latencies)
         \/ ProbeRaise(w)
         \/ AppendSnapshot(w)
         \/ Trim(w)
         \/ DisplayTest(w)
         \/ DisplayRate(w)
         \/ SuccessRead(w)
         \/ SuccessWrite(w)
         \/ CountRead(w)
         \/ CountWrite(w)
         \/ BeginWait(w)
         \/ EndWait(w)
    \/ StartCheck("main", 1)
    \/ StartRun("main")
    \/ StartCount("main")
    \/ StartSuccess("main", Instant)
    \/ StartDiscoverReturn("main", RotationLists)
    \/ StartDiscoverRaise("main")
    \/ StartBaseline("main", Readings)
    \/ StartSpawn("main")
    \/ StartReturn("main")
    \/ Advance(RotationTicks)

SpecRotation == InitRotation /\ [][NextRotation]_vars

\* One instance in fast mode on a quiet network (no devices, counters that
\* stand still, no failing collaborator, calls that take no time), started at
\* time 0 and running since: the state in which the worker has finished its
\* k-th tick and its wait.  Tick i began at (i - 1) * FastInterval and
\* produced QuietSample(i); the device list was last rediscovered at the
\* first tick more than DiscoveryTTL after the rediscovery before.
QuietSample(i) ==
    MonitoringSnapshot(i, (i - 1) * FastInterval, <<>>, NoUsage, 0, 0,
                       UntestedQuality(<<>>), None)

RunningQuietly(k) ==
    /\ monitor_interval = FastInterval
    /\ is_running = TRUE
    /\ shutdown_event = FALSE
    /\ monitor_thread = Some(1)
    /\ snapshots = [i \in 1..k |-> QuietSample(i)]
    /\ last_bandwidth_stats =
          Some([bytes_sent |-> 1000, bytes_recv |-> 2000,
                timestamp |-> (k - 1) * FastInterval])
    /\ device_cache = <<>>
    /\ measurement_count = k
    /\ successful_measurements = k
    /\ last_device_discovery =
          Some((DiscoveryTTL + FastInterval)
                 * (((k - 1) * FastInterval)
                      \div (DiscoveryTTL + FastInterval)))
    /\ last_quality_test = None
    /\ quality_test_device_index = 0
    /\ last_tested_device_list = <<>>
    /\ now = k * FastInterval
    /\ wpc = [w \in Workers |-> IF w = 1 THEN "loop" ELSE "unborn"]
    /\ wloc = [w \in Workers |-> WorkerLocals]
    /\ wtimer = [w \in Workers |-> IF w = 1 THEN k * FastInterval ELSE 0]
    /\ cpc = [c \in Callers |-> "idle"]
    /\ cloc = [c \in Callers |->
                 IF c = "main" THEN [op |-> "start", ret |-> Some(TRUE)]
                 ELSE [op |-> "none", ret |-> None]]
    /\ ctimer = [c \in Callers |-> IF c = "main" THEN StartSettle ELSE 0]
    /\ recent = None
    /\ status = None
    /\ calc = None
    /\ peer = None
    /\ hist = [ticks |-> k, produced |-> k, inserted |-> k, succeeded |-> k,
               counted |-> k, calls |-> 1, spawned |-> 1, selected |-> <<>>,
               rollback |-> FALSE, stop_set |-> None, stop_end |-> None]

\* The run is followed from HistoryBefore ticks before the history is full
\* to HistoryExtra ticks after, with readers; the cached device list stays
\* fresh over these ticks.
HistoryStart == Capacity - HistoryBefore
HistoryTicks == Capacity + HistoryExtra
InitHistory == RunningQuietly(HistoryStart)

NextHistory ==
    \/ ReadRecent
    \/ ReadStatus
    \/ ReaderDone
    \/ \E w \in Workers :
         \/ LoopCheck(w, HistoryTicks)
         \/ CollectBegin(w, Instant)
         \/ Bandwidth(w, Readings)
         \/ AppendSnapshot(w)
         \/ Trim(w)
         \/ DisplayTest(w)
         \/ DisplayRate(w)
         \/ SuccessRead(w)
         \/ SuccessWrite(w)
         \/ CountRead(w)
         \/ CountWrite(w)
         \/ BeginWait(w)
         \/ EndWait(w)
    \/ Advance(HistoryTicks)

SpecHistory == InitHistory /\ [][NextHistory]_vars

\* The same instance followed from its construction.
NextQuiet ==
    \/ \E w \in Workers :
         \/ LoopCheck(w, HistoryStart)
         \/ CollectBegin(w, Instant)
         \/ DiscoverReturn(w, {<<>>})
         \/ Bandwidth(w, Readings)
         \/ AppendSnapshot(w)
         \/ Trim(w)
         \/ DisplayTest(w)
         \/ DisplayRate(w)
         \/ SuccessRead(w)
         \/ SuccessWrite(w)
         \/ CountRead(w)
         \/ CountWrite(w)
         \/ BeginWait(w)
         \/ EndWait(w)
    \/ StartCheck("main", 1)
    \/ StartRun("main")
    \/ StartCount("main")
    \/ StartSuccess("main", Instant)
    \/ StartDiscoverReturn("main", {<<>>})
    \/ StartBaseline("main", Readings)
    \/ StartSpawn("main")
    \/ StartReturn("main")
    \/ Advance(HistoryStart)

SpecQuiet == InitWith({FastInterval}) /\ [][NextQuiet]_vars

\* SpecHistory begins in a state SpecQuiet reaches.
QuietStartUnreached == ~RunningQuietly(HistoryStart)

\* One instance in fast mode whose counter read can fail in any tick (psutil
\* raising), started once and not stopped, with a reader of the status.
InitFailures == InitWith({FastInterval})

NextFailures ==
    \/ ReadStatus
    \/ ReaderDone
    \/ \E w \in Workers :
         \/ LoopCheck(w, FailureTicks)
         \/ CollectBegin(w, Instant)
         \/ Bandwidth(w, Readings)
         \/ BandwidthRaise(w)
         \/ AppendSnapshot(w)
         \/ Trim(w)
         \/ DisplayTest(w)
         \/ DisplayRate(w)
         \/ SuccessRead(w)
         \/ SuccessWrite(w)
         \/ CountRead(w)
         \/ CountWrite(w)
         \/ BeginWait(w)
         \/ EndWait(w)
    \/ StartCheck("main", 1)
    \/ StartRun("main")
    \/ StartCount("main")
    \/ StartSuccess("main", Instant)
    \/ StartDiscoverReturn("main", {<<>>})
    \/ StartDiscoverRaise("main")
    \/ StartBaseline("main", Readings)
    \/ StartBaselineRaise("main")
    \/ StartSpawn("main")
    \/ StartReturn("main")
    \/ Advance(FailureTicks)

SpecFailures == InitFailures /\ [][NextFailures]_vars

\* One instance with the default interval on a network without devices,
\* started once and not stopped, whose traffic counters move from reading to
\* reading in any way.
InitRates == InitWith({DefaultInterval})

NextRates ==
    \/ \E w \in Workers :
         \/ LoopCheck(w, RateTicks)
         \/ CollectBegin(w, Instant)
         \/ Bandwidth(w, RateReadings)
         \/ BandwidthRaise(w)
         \/ Select(w, Instant)
         \/ AppendSnapshot(w)
         \/ Trim(w)
         \/ DisplayTest(w)
         \/ DisplayRate(w)
         \/ SuccessRead(w)
         \/ SuccessWrite(w)
         \/ CountRead(w)
         \/ CountWrite(w)
         \/ BeginWait(w)
         \/ EndWait(w)
    \/ StartCheck("main", 1)
    \/ StartRun("main")
    \/ StartCount("main")
    \/ StartSuccess("main", Instant)
    \/ StartDiscoverReturn("main", {<<>>})
    \/ StartBaseline("main", RateReadings)
    \/ StartBaselineRaise("main")
    \/ StartSpawn("main")
    \/ StartReturn("main")
    \/ Advance(RateTicks)

SpecRates == InitRates /\ [][NextRates]_vars

\* The classifier called directly on an instance that was only constructed:
\* latencies, losses (tenths of a percent) and device counts on, just below
\* and just above every threshold.
CallLatencies == {0, 1, 25, 26, 30, 50, 51, 100, 101}
CallLosses == {0, 5, 6, 20, 21, 50, 51, 1000}
CallDeviceCounts == {0, 10, 11, 15}

\* `before` is the result of the call before this one, when there was one.
InitQuality ==
    /\ Constructed({DefaultInterval})
    /\ calc \in { Some([avg_latency |-> l, avg_packet_loss |-> p,
                        device_count |-> n, result |-> None,
                        before |-> None]) :
                     l \in CallLatencies, p \in CallLosses,
                     n \in CallDeviceCounts }
    /\ peer = None

\* The call returns.
Classify ==
    /\ ~IsNone(calc)
    /\ IsNone(Get(calc).result)
    /\ calc' = Some([Get(calc) EXCEPT
                       !.result = Some(calculate_overall_quality(
                                          Get(calc).avg_latency,
                                          Get(calc).avg_packet_loss,
                                          Get(calc).device_count))])
    /\ UNCHANGED <<svc, now, workers, control, recent, status, peer, hist>>

\* A second call, for the same device count and a latency and a loss that
\* are no smaller, returns.
ClassifyHigher ==
    /\ ~IsNone(calc)
    /\ ~IsNone(Get(calc).result)
    /\ IsNone(Get(calc).before)
    /\ \E l \in CallLatencies, p \in CallLosses :
         /\ l >= Get(calc).avg_latency
         /\ p >= Get(calc).avg_packet_loss
         /\ calc' = Some([avg_latency |-> l, avg_packet_loss |-> p,
                          device_count |-> Get(calc).device_count,
                          result |-> Some(calculate_overall_quality(
                                             l, p, Get(calc).device_count)),
                          before |-> Get(calc).result])
    /\ UNCHANGED <<svc, now, workers, control, recent, status, peer, hist>>

NextQuality == Classify \/ ClassifyHigher

SpecQuality == InitQuality /\ [][NextQuality]_vars

\* One instance with the default interval, started once, on a network whose
\* discovery may return any of DirectoryLists; a discovery in a tick and a
\* probe each last longer than the discovery period, so that every tick
\* after the first rediscovers and calls the selector.
InitDirectory == InitWith({DefaultInterval})

NextDirectory ==
    \/ \E w \in Workers :
         \/ LoopCheck(w, DirectoryTicks)
         \/ CollectBegin(w, {LongCall})
         \/ DiscoverReturn(w, DirectoryLists)
         \/ DiscoverRaise(w)
         \/ Bandwidth(w, Readings)
         \/ Select(w, {LongCall})
         \/ ProbeReturn(w, Latencies)
         \/ ProbeRaise(w)
         \/ AppendSnapshot(w)
         \/ Trim(w)
         \/ DisplayTest(w)
         \/ DisplayRate(w)
         \/ SuccessRead(w)
         \/ SuccessWrite(w)
         \/ CountRead(w)
         \/ CountWrite(w)
         \/ BeginWait(w)
         \/ EndWait(w)
    \/ StartCheck("main", 1)
    \/ StartRun("main")
    \/ StartCount("main")
    \/ StartSuccess("main", Instant)
    \/ StartDiscoverReturn("main", DirectoryLists)
    \/ StartDiscoverRaise("main")
    \/ StartBaseline("main", Readings)
    \/ StartSpawn("main")
    \/ StartReturn("main")
    \/ Advance(DirectoryTicks)

SpecDirectory == InitDirectory /\ [][NextDirectory]_vars

\* One instance whose interval is the discovery period (30 s), started once,
\* with collaborators that answer at once: its ticks begin whole discovery
\* periods after start()'s discovery.
InitBoundary == InitWith({DiscoveryTTL})

NextBoundary ==
    \/ \E w \in Workers :
         \/ LoopCheck(w, BoundaryTicks)
         \/ CollectBegin(w, Instant)
         \/ DiscoverReturn(w, DeviceLists)
         \/ DiscoverRaise(w)
         \/ Bandwidth(w, Readings)
         \/ Select(w, Instant)
         \/ ProbeReturn(w, Latencies)
         \/ ProbeRaise(w)
         \/ AppendSnapshot(w)
         \/ Trim(w)
         \/ DisplayTest(w)
         \/ DisplayRate(w)
         \/ SuccessRead(w)
         \/ SuccessWrite(w)
         \/ CountRead(w)
         \/ CountWrite(w)
         \/ BeginWait(w)
         \/ EndWait(w)
    \/ StartCheck("main", 1)
    \/ StartRun("main")
    \/ StartCount("main")
    \/ StartSuccess("main", Instant)
    \/ StartDiscoverReturn("main", DeviceLists)
    \/ StartDiscoverRaise("main")
    \/ StartBaseline("main", Readings)
    \/ StartSpawn("main")
    \/ StartReturn("main")
    \/ Advance(BoundaryTicks)

SpecBoundary == InitBoundary /\ [][NextBoundary]_vars

\* -------------------------------------------------------- a second instance
\* The attributes of a second instance after __init__ (62-99); `thread` is
\* the state of its worker and `calls` counts the calls made on it.
PeerConstructed ==
    [is_running |-> FALSE, shutdown_event |-> FALSE, thread |-> "unborn",
     snapshots |-> <<>>, device_cache |-> <<>>,
     measurement_count |-> 0, successful_measurements |-> 0,
     quality_test_device_index |-> 0, last_tested_device_list |-> <<>>,
     calls |-> 0]

\* start() on the second instance (107-163), in one step.
PeerStart(limit, lists) ==
    /\ ~IsNone(peer)
    /\ Get(peer).calls < limit
    /\ IF Get(peer).is_running
       THEN peer' = Some([Get(peer) EXCEPT !.calls = @ + 1])
       ELSE \E devices \in lists :
              peer' = Some([Get(peer) EXCEPT
                              !.calls = @ + 1,
                              !.is_running = TRUE,
                              !.measurement_count = 0,
                              !.successful_measurements = 0,
                              !.device_cache = DictValues(devices),
                              !.thread = "alive"])
    /\ UNCHANGED <<svc, now, workers, control, recent, status, calc, hist>>

\* stop() on the second instance (165-193), up to the join.
PeerStop(limit) ==
    /\ ~IsNone(peer)
    /\ Get(peer).calls < limit
    /\ IF ~Get(peer).is_running
       THEN peer' = Some([Get(peer) EXCEPT !.calls = @ + 1])
       ELSE peer' = Some([Get(peer) EXCEPT !.calls = @ + 1,
                                           !.is_running = FALSE,
                                           !.shutdown_event = TRUE])
    /\ UNCHANGED <<svc, now, workers, control, recent, status, calc, hist>>

\* One iteration of the second instance's loop (202-236) with collaborators
\* that answer: the sample is built from its cache, with a probe of the
\* next device of its rotation when a quality test is due, appended to its
\* history, and its two counters are incremented.
PeerIteration(limit) ==
    /\ ~IsNone(peer)
    /\ Get(peer).thread = "alive"
    /\ Get(peer).is_running /\ ~Get(peer).shutdown_event
    /\ Get(peer).measurement_count < limit
    /\ \E due \in BOOLEAN :
         LET devices == Get(peer).device_cache
             r == get_next_device_for_quality_test(
                     devices, Get(peer).quality_test_device_index,
                     Get(peer).last_tested_device_list)
             id == Len(Get(peer).snapshots) + 1
             snapshot ==
               IF due /\ ~IsNone(r.device)
               THEN MonitoringSnapshot(id, 0, devices, NoUsage, 0, TotalLoss,
                                       calculate_overall_quality(
                                          0, TotalLoss, Len(devices)),
                                       Some(Get(r.device).ip))
               ELSE MonitoringSnapshot(id, 0, devices, NoUsage, 0, 0,
                                       IF due
                                       THEN calculate_overall_quality(
                                               0, 0, Len(devices))
                                       ELSE UntestedQuality(devices),
                                       None)
         IN  peer' = Some([Get(peer) EXCEPT
                             !.quality_test_device_index =
                                IF due THEN r.index ELSE @,
                             !.last_tested_device_list =
                                IF due THEN r.last ELSE @,
                             !.snapshots =
                                TrimHistory(Append(@, snapshot)),
                             !.successful_measurements = @ + 1,
                             !.measurement_count = @ + 1])

\* An iteration that counts in the first instance's counter as well, as if
\* measurement_count were an attribute of the class.
PeerTickShared(limit) ==
    /\ PeerIteration(limit)
    /\ measurement_count' = measurement_count + 1
    /\ UNCHANGED <<flags, snapshots, last_bandwidth_stats, directory,
                   successful_measurements, last_quality_test, rotation,
                   now, workers, control, recent, status, calc, hist>>

PeerTick(limit) ==
    /\ PeerIteration(limit)
    /\ UNCHANGED <<svc, now, workers, control, recent, status, calc, hist>>

\* The second instance's loop condition fails (202) and its worker ends.
PeerExit ==
    /\ ~IsNone(peer)
    /\ Get(peer).thread = "alive"
    /\ ~(Get(peer).is_running /\ ~Get(peer).shutdown_event)
    /\ peer' = Some([Get(peer) EXCEPT !.thread = "done"])
    /\ UNCHANGED <<svc, now, workers, control, recent, status, calc, hist>>

\* Two instances with the default interval (test_continuous_monitor.py
\* 402-420), each with its controlling calls of start() and stop() in any
\* order, collaborators that answer at once, and every thread scheduled
\* fairly.
InitPair ==
    /\ Constructed({DefaultInterval})
    /\ calc = None
    /\ peer = Some(PeerConstructed)

PairWorkerStep(w) ==
    \/ LoopCheck(w, PairTicks)
    \/ CollectBegin(w, Instant)
    \/ Bandwidth(w, Readings)
    \/ Select(w, Instant)
    \/ ProbeReturn(w, Latencies)
    \/ AppendSnapshot(w)
    \/ Trim(w)
    \/ DisplayTest(w)
    \/ DisplayRate(w)
    \/ SuccessRead(w)
    \/ SuccessWrite(w)
    \/ CountRead(w)
    \/ CountWrite(w)
    \/ BeginWait(w)
    \/ EndWait(w)

PairCallerProgress(c) ==
    \/ StartRun(c)
    \/ StartCount(c)
    \/ StartSuccess(c, Instant)
    \/ StartDiscoverReturn(c, {<<Dev(2, "b"), Dev(1, "a")>>})
    \/ StartBaseline(c, Readings)
    \/ StartSpawn(c)
    \/ StartReturn(c)
    \/ StopRun(c)
    \/ StopSet(c)
    \/ StopJoin(c)
    \/ StopReturn(c)

NextPair ==
    \/ \E w \in Workers : PairWorkerStep(w)
    \/ StartCheck("main", PairCalls)
    \/ StopCheck("main", PairCalls)
    \/ PairCallerProgress("main")
    \/ Advance(PairTicks)
    \/ PeerStart(PairCalls, {<<Dev(2, "b"), Dev(1, "a")>>})
    \/ PeerStop(PairCalls)
    \/ PeerTick(PairTicks)
    \/ PeerExit

SpecPair ==
    /\ InitPair
    /\ [][NextPair]_vars
    /\ \A w \in Workers : WF_vars(PairWorkerStep(w))
    /\ WF_vars(PairCallerProgress("main"))
    /\ WF_vars(Advance(PairTicks))
    /\ WF_vars(PeerTick(PairTicks))

\* ------------------------------------------------------------------ claims
\* hist.selected is the sequence of addresses the selector has returned
\* since it last found the address list changed (the call that found the
\* change included).

\* C1 (rotation fairness): as long as the address set does not change, the
\* selector's calls since the reset return the devices of the set in address
\* order, one after the other, and start again with the first after the
\* last: call number i returns the device at place ((i - 1) mod K) + 1 of the
\* address-sorted list of the K devices.
C1_RotationFairness ==
    LET order == Ips(last_tested_device_list)
        K == Len(order)
    IN  /\ \A i \in 1..(K - 1) : order[i] <= order[i + 1]
        /\ \A w \in Workers :
             wpc[w] = "probe" => IpSet(wloc[w].devices) = IpSet(
                                    last_tested_device_list)
        /\ \A i \in 1..Len(hist.selected) :
             hist.selected[i] = order[((i - 1) % K) + 1]

\* Three devices, given out of address order, and four calls since the
\* reset: the fourth has returned the first device again.
C1_Witness ==
    /\ Len(last_tested_device_list) = 3
    /\ hist.selected = <<1, 2, 3, 1>>

\* C2 (bounded history): in every state, and in every status or list a
\* reader obtains, the history holds at most Capacity samples.
C2_HistoryBounded ==
    /\ Len(snapshots) <= Capacity
    /\ ~IsNone(status) => Get(status).snapshots_collected <= Capacity
    /\ ~IsNone(recent) => Len(Get(recent).result) <= Capacity

\* An insertion is complete once the worker is past lines 211-215.
InsertionsComplete == \A w \in Workers : wpc[w] \notin {"trim"}

\* C3 (FIFO eviction): once n insertions are complete, the history is the
\* last min(n, Capacity) inserted samples, in insertion order (the i-th
\* inserted sample carries id i).
C3_FifoEviction ==
    InsertionsComplete =>
       LET n == hist.inserted
           len == Len(snapshots)
       IN  /\ len = Min(n, Capacity)
           /\ \A i \in 1..len : snapshots[i].id = n - len + i

\* Capacity + 1 insertions are complete: the first sample is gone, the
\* second is the oldest, the newest is the last.
C3_Witness ==
    /\ InsertionsComplete
    /\ hist.inserted = Capacity + 1
    /\ snapshots[1].id = 2
    /\ snapshots[Capacity].id = Capacity + 1

\* C4 (readers see a contiguous run): the list a reader has obtained from
\* get_recent_snapshots holds samples the worker has produced, each the
\* successor in production order of the one before it.
C4_ContiguousRun ==
    ~IsNone(recent) =>
       LET result == Get(recent).result
       IN  /\ \A i \in 1..Len(result) : result[i].id \in 1..hist.produced
           /\ \A i \in 1..(Len(result) - 1) :
                result[i + 1].id = result[i].id + 1

\* A reader has asked for two samples and obtained the two the worker has
\* produced.
C4_Witness ==
    /\ ~IsNone(recent)
    /\ Get(recent).count = 2
    /\ Len(Get(recent).result) = 2
    /\ hist.produced = 2

\* C5 (get_recent_snapshots(n)): the list a reader has obtained for count n
\* is the last min(n, len) samples of the history, oldest first, and so
\* holds no more than n samples.
C5_RecentCount ==
    ~IsNone(recent) =>
       LET n == Get(recent).count
           result == Get(recent).result
           len == Len(snapshots)
           k == Min(n, len)
       IN  /\ Len(result) = k
           /\ result = SubSeq(snapshots, len - k + 1, len)

\* Thread c calls start() or stop() in this step.
Calling(c, op) ==
    /\ hist'.calls = hist.calls + 1
    /\ cpc[c] = "idle"
    /\ cloc'[c].op = op

\* C6 (start() on a running instance): the call returns False at once and
\* changes nothing: no field of the instance, no worker (none is created,
\* none moves), no collaborator call begun.
C6_StartWhenRunning ==
    [][\A c \in Callers :
         (Calling(c, "start") /\ is_running) =>
            /\ cloc'[c].ret = Some(FALSE)
            /\ cpc'[c] = "idle"
            /\ hist'.spawned = hist.spawned
            /\ UNCHANGED <<svc, workers, now, ctimer, reads>>]_vars

\* start() has returned False, with the worker of the first start() alive.
C6_Witness ==
    /\ cloc["main"] = [op |-> "start", ret |-> Some(FALSE)]
    /\ \E w \in Workers : Alive(w)

\* C7 (stop() on a stopped instance): the call returns False at once and
\* changes nothing: no field of the instance, no worker.
C7_StopWhenStopped ==
    [][\A c \in Callers :
         (Calling(c, "stop") /\ ~is_running) =>
            /\ cloc'[c].ret = Some(FALSE)
            /\ cpc'[c] = "idle"
            /\ hist' = [hist EXCEPT !.calls = @ + 1]
            /\ UNCHANGED <<svc, workers, now, ctimer, reads>>]_vars

\* stop() has returned False on an instance that was started and stopped
\* before.
C7_Witness ==
    /\ cloc["main"] = [op |-> "stop", ret |-> Some(FALSE)]
    /\ hist.spawned >= 1
    /\ shutdown_event

\* C8 (lifecycle): the running flag rises only in a call of start() that was
\* accepted and falls only in a call of stop() that was accepted; start() is
\* accepted exactly on a stopped instance and stop() exactly on a running
\* one; an accepted start() returns True with the flag set, an accepted
\* stop() returns True with the flag clear.
C8_Lifecycle ==
    [][\A c \in Callers :
         /\ (~is_running /\ is_running') =>
               \E d \in Callers : cpc[d] = "start_run" /\ cpc'[d] # cpc[d]
         /\ (is_running /\ ~is_running') =>
               \E d \in Callers : cpc[d] = "stop_run" /\ cpc'[d] # cpc[d]
         /\ (Calling(c, "start") /\ ~is_running) => cpc'[c] = "start_run"
         /\ (Calling(c, "stop") /\ is_running) => cpc'[c] = "stop_run"
         /\ (cpc[c] # "idle" /\ cpc'[c] = "idle") =>
               /\ cloc'[c].ret = Some(TRUE)
               /\ is_running' = (cloc'[c].op = "start")]_vars

\* An instance started (True), stopped (True) and started again (True).
C8_Witness ==
    /\ hist.calls = 3
    /\ hist.spawned = 2
    /\ cpc["main"] = "idle"
    /\ cloc["main"] = [op |-> "start", ret |-> Some(TRUE)]
    /\ ~IsNone(hist.stop_end)
    /\ is_running

\* C9 (stop() during the end-of-tick wait): when the shutdown event was set
\* with the monitor thread in its wait and part of the wait left, stop() has
\* returned with the thread finished, no iteration started since, and no
\* time spent waiting.
C9_StopWakesWorker ==
    (~IsNone(hist.stop_end) /\ ~IsNone(hist.stop_set)) =>
       LET set == Get(hist.stop_set)
           end == Get(hist.stop_end)
       IN  (set.waiting /\ set.remaining > 0) =>
              /\ ~end.alive
              /\ end.ticks = set.ticks
              /\ end.at = set.at

\* stop() has returned after it set the event with more of the worker's
\* wait left than the join would have waited.
C9_Witness ==
    /\ ~IsNone(hist.stop_end)
    /\ ~IsNone(hist.stop_set)
    /\ Get(hist.stop_set).waiting
    /\ Get(hist.stop_set).remaining > JoinTimeout
    /\ cloc["main"] = [op |-> "stop", ret |-> Some(TRUE)]

\* C10 (liveness of cancellation): once the running flag is clear or the
\* shutdown event set, no worker starts another iteration, and from any
\* moment at which the event is set the workers alive eventually finish:
\* none is left alive.
C10_CancellationLiveness ==
    /\ [][(shutdown_event \/ ~is_running) => hist'.ticks = hist.ticks]_vars
    /\ shutdown_event ~> (\A w \in Workers : ~Alive(w))

\* The event was set while the monitor thread was in a collaborator call of
\* its tick; the thread has completed that tick and finished.
C10_Witness ==
    /\ ~IsNone(hist.stop_set)
    /\ Get(hist.stop_set).pc \in {"discover", "probe"}
    /\ hist.inserted = Get(hist.stop_set).ticks
    /\ \A w \in Workers : ~Alive(w)

\* No worker is inside an iteration of the loop.
BetweenIterations ==
    \A w \in Workers : wpc[w] \in {"unborn", "loop", "wait", "done"}

\* C11 (every iteration is accounted for): the monitor thread of a running
\* instance whose shutdown event is not set is alive, and between iterations
\* the counter was incremented once for every iteration begun
\* (hist.counted = hist.ticks) and the success counter once for every sample
\* appended (hist.succeeded = hist.inserted), at most one per iteration.
C11_TicksAccounted ==
    /\ (is_running /\ ~shutdown_event /\ ~IsNone(monitor_thread))
          => Alive(Get(monitor_thread))
    /\ BetweenIterations =>
          /\ hist.counted = hist.ticks
          /\ hist.succeeded = hist.inserted
          /\ hist.inserted <= hist.ticks

\* C12 (consecutive-failure ceiling): once five iterations in a row have
\* failed (five counted, no sample ever appended) the worker begins no
\* sixth, and it is not left waiting for one on an instance that reports
\* itself running.
C12_FailureCeiling ==
    (hist.counted >= 5 /\ hist.inserted = 0) =>
       /\ hist.ticks <= 5
       /\ BetweenIterations => ~is_running

\* C13 (the status is truthful): a status obtained while no call of start()
\* or stop() is in progress reports is_running only if a worker is alive
\* that can begin another iteration (the shutdown event is not set), and
\* reports it false only if no worker is inside an iteration.
C13_StatusTruthful ==
    (~IsNone(status) /\ \A c \in Callers : cpc[c] = "idle") =>
       IF Get(status).is_running
       THEN ~shutdown_event /\ \E w \in Workers : Alive(w)
       ELSE BetweenIterations

\* start() is past its check and before the creation of its thread
\* (lines 128-151).
Initialising(c) ==
    cpc[c] \in {"start_run", "start_count", "start_success", "start_discover",
                "start_baseline", "start_spawn"}

\* C14 (single writer): at most one worker of the instance is alive, and
\* none is while start() initialises the counters, the device cache, the
\* discovery time and the baseline.
C14_SingleWriter ==
    /\ Cardinality({ w \in Workers : Alive(w) }) <= 1
    /\ \A c \in Callers : Initialising(c) => \A w \in Workers : ~Alive(w)

\* Worker w reads the counters in this step (lines 309-326), against a
\* baseline.
ReadsCounters(w) ==
    /\ wpc[w] = "bandwidth"
    /\ wpc'[w] \in {"select", "append"}
    /\ ~IsNone(last_bandwidth_stats)

\* The baseline and the reading of that step.
Previous == Get(last_bandwidth_stats)
Current == Get(last_bandwidth_stats')

\* C15 (time delta <= 0): a tick whose reading is not later than its
\* baseline goes on to build its sample, with upload rate, download rate and
\* usage 0; and a sample carries the figures of its tick.
C15_InvalidDelta ==
    /\ [][\A w \in Workers :
            (ReadsCounters(w) /\ Current.timestamp - Previous.timestamp <= 0)
               => wloc'[w].usage = NoUsage]_vars
    /\ [](\A w \in Workers :
            wpc[w] = "append" =>
               LET snapshot == Get(wloc[w].snapshot)
               IN  /\ snapshot.total_upload_mbps
                         = wloc[w].usage.upload_rate_mbps
                   /\ snapshot.total_download_mbps
                         = wloc[w].usage.download_rate_mbps
                   /\ snapshot.total_usage_mb = wloc[w].usage.total_usage_mb)

\* The first tick has read counters that differ from the baseline, at the
\* time of the baseline, and its sample is in the history.
C15_Witness ==
    /\ Len(snapshots) = 1
    /\ hist.ticks = 1
    /\ hist.rollback
    /\ ~IsNone(last_bandwidth_stats)
    /\ Get(last_bandwidth_stats).timestamp = 0
    /\ snapshots[1].total_upload_mbps = 0
    /\ snapshots[1].total_usage_mb = 0

\* C16 (counter rollback): no sample of the history has a negative upload or
\* download rate.
C16_NoNegativeRate ==
    \A i \in 1..Len(snapshots) :
       /\ snapshots[i].total_upload_mbps >= 0
       /\ snapshots[i].total_download_mbps >= 0

\* C17 (rate formula): for a reading later than its baseline with counters
\* that did not decrease, the upload rate is
\* (sent delta) * 8 / dt / 1,000,000 Mbps and the download rate likewise;
\* rates are in hundredths of a Mbps and dt in clock units here.
C17_RateFormula ==
    [][\A w \in Workers :
         (/\ ReadsCounters(w)
          /\ Current.timestamp - Previous.timestamp > 0
          /\ Current.bytes_sent >= Previous.bytes_sent
          /\ Current.bytes_recv >= Previous.bytes_recv)
            => LET dt == Current.timestamp - Previous.timestamp
                   usage == wloc'[w].usage
               IN  /\ usage.upload_rate_mbps * dt * 1000000
                        = (Current.bytes_sent - Previous.bytes_sent)
                             * BitsPerByte * UnitsPerSecond * Hundredths
                   /\ usage.download_rate_mbps * dt * 1000000
                        = (Current.bytes_recv - Previous.bytes_recv)
                             * BitsPerByte * UnitsPerSecond * Hundredths]_vars

\* C18 (usage is a running total): as long as no counter has decreased since
\* start(), the usage figure does not decrease from one sample of the
\* history to the next.
C18_RunningTotal ==
    ~hist.rollback =>
       \A i \in 1..(Len(snapshots) - 1) :
          snapshots[i].total_usage_mb <= snapshots[i + 1].total_usage_mb

\* A call of the classifier has returned.
Classified == ~IsNone(calc) /\ ~IsNone(Get(calc).result)

\* C19 (base tier): for a measured latency (above 0) and at most 10 devices
\* the classifier returns Poor when loss > 5 % or latency > 100 ms, else Fair
\* when loss > 2 % or latency > 50 ms, else Good when loss > 0.5 % or
\* latency > 25 ms, else Excellent; a value on a threshold does not exceed it.
\* Losses are in tenths of a percent.
C19_BaseTier ==
    (Classified /\ Get(calc).avg_latency > 0 /\ Get(calc).device_count <= 10)
       => LET l == Get(calc).avg_latency
              p == Get(calc).avg_packet_loss
          IN  Get(Get(calc).result) =
                 IF p > 50 \/ l > 100 THEN "Poor"
                 ELSE IF p > 20 \/ l > 50 THEN "Fair"
                 ELSE IF p > 5 \/ l > 25 THEN "Good"
                 ELSE "Excellent"

\* A call with latency 25 ms, loss 0.5 % and 10 devices, each on its
\* threshold, has returned Excellent.
C19_Witness ==
    /\ Classified
    /\ Get(calc).avg_latency = 25
    /\ Get(calc).avg_packet_loss = 5
    /\ Get(calc).device_count = 10
    /\ Get(Get(calc).result) = "Excellent"

\* C20 (congestion derate): with more than 10 devices the result is the base
\* tier (the result for the same latency and loss with no device) lowered
\* from Excellent to Good and from Good to Fair, and the base tier itself
\* for Fair, Poor and Unknown; with at most 10 devices it is the base tier.
C20_Derate ==
    Classified =>
       LET base == calculate_overall_quality(Get(calc).avg_latency,
                                             Get(calc).avg_packet_loss, 0)
           result == Get(Get(calc).result)
       IN  IF Get(calc).device_count > 10
           THEN result = IF base = "Excellent" THEN "Good"
                         ELSE IF base = "Good" THEN "Fair"
                         ELSE base
           ELSE result = base

\* The call with latency 30 ms, loss 0 and 15 devices has returned Fair.
C20_Witness ==
    /\ Classified
    /\ Get(calc).avg_latency = 30
    /\ Get(calc).avg_packet_loss = 0
    /\ Get(calc).device_count = 15
    /\ Get(Get(calc).result) = "Fair"

\* The tiers from worst to best.
Tiers == <<"Unknown", "Poor", "Fair", "Good", "Excellent">>
Rank(tier) == CHOOSE i \in 1..Len(Tiers) : Tiers[i] = tier

\* C21 (total and monotone): every call of the classifier returns one of the
\* five tiers, and a call with the same device count and a latency and loss
\* that are no smaller than those of the call before it (a latency of 0
\* included) returns a tier that is no higher.
C21_TotalMonotone ==
    Classified =>
       /\ \E i \in 1..Len(Tiers) : Tiers[i] = Get(Get(calc).result)
       /\ ~IsNone(Get(calc).before) =>
             Rank(Get(Get(calc).result)) <= Rank(Get(Get(calc).before))

\* C22 (no measurement, no tier): every sample of the history that carries
\* no latency measurement (its latency is 0: the probe was skipped, there
\* was no device, the target did not answer or the probe raised) has quality
\* tier Unknown.
C22_UnmeasuredUnknown ==
    \A i \in 1..Len(snapshots) :
       snapshots[i].avg_latency_ms = 0
          => snapshots[i].overall_quality = "Unknown"

\* Worker w calls the selector in this step (line 340).
Selects(w) == wpc[w] = "select" /\ wpc'[w] \in {"probe", "append"}

\* C23 (reset exactly on a membership change): a selector call with a
\* non-empty list whose address set differs from the remembered one
\* remembers the list sorted by address, returns its first device and leaves
\* the cursor after it; a call whose address set equals the remembered one
\* keeps what is remembered, returns the device at the cursor and advances
\* the cursor by one.
C23_ResetOnChange ==
    [][\A w \in Workers :
         (Selects(w) /\ wloc[w].devices # <<>>) =>
            LET devices == wloc[w].devices
                sorted_devices == SortedByIp(devices)
                returned == wloc'[w].device_to_test
            IN  IF IpSet(devices) # IpSet(last_tested_device_list)
                THEN /\ last_tested_device_list' = sorted_devices
                     /\ returned = Some(sorted_devices[1])
                     /\ quality_test_device_index'
                           = 1 % Len(sorted_devices)
                ELSE /\ last_tested_device_list' = last_tested_device_list
                     /\ ~IsNone(returned)
                     /\ Get(returned).ip
                           = last_tested_device_list[
                                quality_test_device_index + 1].ip
                     /\ quality_test_device_index'
                           = (quality_test_device_index + 1)
                                % Len(last_tested_device_list)]_vars

\* The addresses of a device list are pairwise distinct.
DistinctIps(devices) == Cardinality(IpSet(devices)) = Len(devices)

\* C27 (distinct addresses): every sample's device list has pairwise
\* distinct addresses, its device_count is the number of distinct addresses,
\* and the ordering the rotation remembers holds each address once.
C27_DistinctAddresses ==
    /\ \A i \in 1..Len(snapshots) :
          /\ DistinctIps(snapshots[i].devices)
          /\ snapshots[i].device_count
                = Cardinality(IpSet(snapshots[i].devices))
    /\ DistinctIps(last_tested_device_list)

\* C24 (empty list): a selector call with no device returns none and leaves
\* the cursor and the remembered ordering as they were; and a call with the
\* addresses that are remembered returns the device at the cursor, so a
\* rotation interrupted by empty lists resumes where it stopped.
C24_EmptyListKeepsRotation ==
    [][\A w \in Workers :
         Selects(w) =>
            IF wloc[w].devices = <<>>
            THEN /\ IsNone(wloc'[w].device_to_test)
                 /\ quality_test_device_index' = quality_test_device_index
                 /\ last_tested_device_list' = last_tested_device_list
            ELSE Ips(SortedByIp(wloc[w].devices))
                      = Ips(last_tested_device_list)
                    => Get(wloc'[w].device_to_test).ip
                          = last_tested_device_list[
                               quality_test_device_index + 1].ip]_vars

\* The first tick probed the first of two devices, the second tick found no
\* device, and the third, with the two devices back, probed the second.
C24_Witness ==
    /\ Len(snapshots) >= 3
    /\ snapshots[1].device_count = 2
    /\ snapshots[1].tested_device_ip = Some(1)
    /\ snapshots[2].device_count = 0
    /\ snapshots[3].device_count = 2
    /\ snapshots[3].tested_device_ip = Some(2)

\* Worker w decides in this step whether to rediscover (lines 294-296).
ChecksDirectory(w) ==
    wpc[w] = "collect" /\ wpc'[w] \in {"discover", "bandwidth"}

\* C25 (discovery when stale): a tick invokes discovery if and only if the
\* directory was never refreshed or the time since the last refresh is at
\* least the discovery period of 30 s.
C25_DiscoveryWhenStale ==
    [][\A w \in Workers :
         ChecksDirectory(w) =>
            (wpc'[w] = "discover"
               <=> \/ IsNone(last_device_discovery)
                   \/ now - Get(last_device_discovery) >= DiscoveryTTL)]_vars

\* C26 (discovery failure): a discovery call that raises, in start() or in
\* a tick, leaves the device cache and the time of the last discovery as
\* they were.
C26_FailureKeepsDirectory ==
    [][(\/ \E c \in Callers : StartDiscoverRaise(c)
        \/ \E w \in Workers : DiscoverRaise(w))
          => /\ device_cache' = device_cache
             /\ last_device_discovery' = last_device_discovery]_vars

\* C29 (one selection and one probe per tick): a tick whose device list is
\* not empty goes on from the counters to the selector, and every sample
\* with a device records the address that was probed, one of its devices.
C29_ProbeEveryTick ==
    /\ [][\A w \in Workers :
            (/\ wpc[w] = "bandwidth"
             /\ wpc'[w] \in {"select", "append"}
             /\ wloc[w].devices # <<>>) => wpc'[w] = "select"]_vars
    /\ [](\A i \in 1..Len(snapshots) :
            snapshots[i].device_count > 0 =>
               /\ ~IsNone(snapshots[i].tested_device_ip)
               /\ Get(snapshots[i].tested_device_ip)
                     \in IpSet(snapshots[i].devices))

\* C30 (probe outcome): a tick that has attempted a probe goes on to build
\* its sample, with loss 0 and the measured latency when the probe
\* succeeded, and with loss 100 % (1000 tenths) and no latency when the
\* target did not answer or the probe raised.
C30_ProbeOutcome ==
    [][\A w \in Workers :
         (wpc[w] = "probe" /\ wpc'[w] # "probe") =>
            /\ wpc'[w] = "append"
            /\ LET snapshot == Get(wloc'[w].snapshot)
               IN  \/ /\ snapshot.avg_latency_ms > 0
                      /\ snapshot.avg_packet_loss = 0
                   \/ /\ snapshot.avg_latency_ms = 0
                      /\ snapshot.avg_packet_loss = 1000]_vars

\* C28 (independent instances): every step leaves at least one of the two
\* instances' attributes (running flag, counters, history, device cache,
\* rotation state) as they were, and two instances that are running, neither
\* asked to stop, both come to a measurement count above 0 unless one of
\* them is stopped first.
C28_IndependentInstances ==
    /\ [][svc' = svc \/ peer' = peer]_vars
    /\ (/\ is_running /\ ~shutdown_event
        /\ Get(peer).is_running /\ ~Get(peer).shutdown_event)
          ~> \/ measurement_count > 0 /\ Get(peer).measurement_count > 0
             \/ ~is_running
             \/ ~Get(peer).is_running

\* Both instances are running and both have measured, the second one more
\* often than the first.
C28_Witness ==
    /\ is_running /\ Get(peer).is_running
    /\ measurement_count = 1
    /\ Get(peer).measurement_count = 2
    /\ Len(snapshots) = 1
    /\ Len(Get(peer).snapshots) = 2

\* C31 (discovery failure in a tick): a tick whose discovery ends without a
\* refresh goes on to read the counters with the devices of the cache, the
\* cache being left as it was, and the sample a tick builds has the device
\* list the tick holds and its length as device_count.
C31_DiscoveryFailureInTick ==
    /\ [][\A w \in Workers :
            (/\ wpc[w] = "discover"
             /\ wpc'[w] # "discover"
             /\ last_device_discovery' = last_device_discovery)
               => /\ wpc'[w] = "bandwidth"
                  /\ wloc'[w].devices = device_cache
                  /\ device_cache' = device_cache]_vars
    /\ [](\A w \in Workers :
            wpc[w] = "append" =>
               /\ Get(wloc[w].snapshot).devices = wloc[w].devices
               /\ Get(wloc[w].snapshot).device_count = Len(wloc[w].devices))

\* The second tick began more than a discovery period after the last
\* discovery that succeeded, and its sample has the two devices of the
\* cache, one of them probed.
C31_Witness ==
    /\ Len(snapshots) >= 2
    /\ ~IsNone(last_device_discovery)
    /\ snapshots[2].timestamp - Get(last_device_discovery) > DiscoveryTTL
    /\ snapshots[2].device_count = 2
    /\ snapshots[2].devices = device_cache
    /\ ~IsNone(snapshots[2].tested_device_ip)

\* C32 (baseline hand-over): a tick whose counter read succeeded stores its
\* reading, taken now, as the baseline, whatever the rate computation gave,
\* and its figures are those of that reading against the baseline before
\* it; a tick whose counter read failed builds no sample and leaves the
\* baseline as it was.
C32_BaselineHandOver ==
    [][\A w \in Workers :
         /\ (wpc[w] = "bandwidth" /\ wpc'[w] \in {"select", "append"})
               => /\ ~IsNone(last_bandwidth_stats')
                  /\ Current.timestamp = now
                  /\ wloc'[w].usage =
                        IF IsNone(last_bandwidth_stats) THEN NoUsage
                        ELSE UsageFigures(
                                calculate_bandwidth_usage(Previous, Current))
         /\ (wpc[w] = "bandwidth" /\ wpc'[w] = "count_read")
               => /\ last_bandwidth_stats' = last_bandwidth_stats
                  /\ IsNone(wloc'[w].snapshot)
                  /\ hist'.produced = hist.produced
                  /\ snapshots' = snapshots]_vars

\* Two ticks have read the counters, the second with a valid rate, and the
\* third tick's counter read failed: the baseline is the second tick's
\* reading.
C32_Witness ==
    /\ hist.counted = 3
    /\ Len(snapshots) = 2
    /\ snapshots[2].timestamp = DefaultInterval
    /\ snapshots[2].total_upload_mbps > 0
    /\ ~IsNone(last_bandwidth_stats)
    /\ Get(last_bandwidth_stats).timestamp = snapshots[2].timestamp
    /\ now > snapshots[2].timestamp

\* C33 (end-of-tick wait): the wait a tick ends with lasts the rest of the
\* interval, and the minimum sleep of 0.05 s when less than that is left or
\* the tick overran; and, no stop being requested, the samples of
\* consecutive ticks are stamped at least one interval apart.
C33_EndOfTickWait ==
    /\ [][\A w \in Workers :
            (wpc[w] = "sleep" /\ wpc'[w] = "wait") =>
               LET elapsed == now - wloc[w].loop_start_time
                   rest == monitor_interval - elapsed
               IN  /\ wtimer'[w] - now
                         = IF rest > MinSleep THEN rest ELSE MinSleep
                   /\ wtimer'[w] - now >= MinSleep]_vars
    /\ [](~shutdown_event =>
            \A i \in 1..(Len(snapshots) - 1) :
               snapshots[i + 1].timestamp - snapshots[i].timestamp
                  >= monitor_interval)

\* The first tick overran the interval by its probe, and the second began
\* the minimum sleep after the first had ended.
C33_Witness ==
    /\ Len(snapshots) >= 2
    /\ ~IsNone(snapshots[1].tested_device_ip)
    /\ snapshots[2].timestamp - snapshots[1].timestamp = LongCall + MinSleep
    /\ LongCall > monitor_interval

\* ---------------------------------------------------------------------------
\* SpecThreshold: one instance constructed with an interval just below or
\* exactly at the 0.5 s threshold of line 89, started once, with collaborators
\* that take no time and a reader of get_service_status.  The directory start()
\* built stays fresh for the ticks observed, so no tick rediscovers.
ThresholdIntervals == {QualityMinInterval - 1, QualityMinInterval}
InitThreshold == InitWith(ThresholdIntervals)

NextThreshold ==
    \/ \E w \in Workers :
         \/ LoopCheck(w, ThresholdTicks)
         \/ CollectBegin(w, Instant)
         \/ Bandwidth(w, Readings)
         \/ Select(w, Instant)
         \/ ProbeReturn(w, Latencies)
         \/ ProbeRaise(w)
         \/ AppendSnapshot(w)
         \/ Trim(w)
         \/ DisplayTest(w)
         \/ DisplayRate(w)
         \/ SuccessRead(w)
         \/ SuccessWrite(w)
         \/ CountRead(w)
         \/ CountWrite(w)
         \/ BeginWait(w)
         \/ EndWait(w)
    \/ StartCheck("main", 1)
    \/ StartRun("main")
    \/ StartCount("main")
    \/ StartSuccess("main", Instant)
    \/ StartDiscoverReturn("main", DeviceLists)
    \/ StartDiscoverRaise("main")
    \/ StartBaseline("main", Readings)
    \/ StartSpawn("main")
    \/ StartReturn("main")
    \/ ReadStatus
    \/ ReaderDone
    \/ Advance(ThresholdTicks)

SpecThreshold == InitThreshold /\ [][NextThreshold]_vars

\* C34: quality testing is enabled exactly when the interval is at least
\* 0.5 s, and get_service_status reports it so.  On an instance where it is
\* disabled no tick reaches the selector or the probe, no sample carries a
\* probed address, and the cursor and the rotation list, as the instance
\* holds them and as a status read reports them, stay at 0 and empty; on an
\* instance where it is enabled the first tick over a non-empty cache calls
\* the selector.
C34_QualityThreshold ==
    /\ ~IsNone(status) =>
          (Get(status).quality_testing_enabled
              <=> monitor_interval >= QualityMinInterval)
    /\ monitor_interval < QualityMinInterval =>
          /\ \A w \in Workers : wpc[w] \notin {"select", "probe"}
          /\ hist.selected = <<>>
          /\ \A i \in 1..Len(snapshots) :
                IsNone(snapshots[i].tested_device_ip)
          /\ quality_test_device_index = 0
          /\ last_tested_device_list = <<>>
          /\ ~IsNone(status) =>
                /\ Get(status).current_device_index = 0
                /\ Get(status).devices_in_rotation = 0
    /\ monitor_interval >= QualityMinInterval =>
          ((Len(snapshots) >= 1 /\ snapshots[1].device_count > 0)
              => hist.selected # <<>>)

\* An instance just below the threshold has completed its ticks over two
\* cached devices without a probe, and its status has been read.
C34_Witness ==
    /\ monitor_interval = QualityMinInterval - 1
    /\ Len(snapshots) = ThresholdTicks
    /\ \A i \in 1..Len(snapshots) : snapshots[i].device_count = 2
    /\ ~IsNone(status)
    /\ ~Get(status).quality_testing_enabled
    /\ Get(status).snapshots_collected = ThresholdTicks
    /\ Get(status).devices_in_rotation = 0

\* C35: every status a concurrent reader obtains has successful_measurements
\* no greater than measurement_count, so that the success rate computed
\* from the two (line 513) is at most 100 %.
C35_SuccessWithinCount ==
    ~IsNone(status) =>
       Get(status).successful_measurements <= Get(status).measurement_count

\* C36: the worker of the latest accepted start() keeps ticking until the
\* next stop(): it leaves its loop (line 202) only once a stop() has
\* cleared is_running.  A worker that ends while the instance is running,
\* with no start() or stop() under way, will never tick again.
C36_RestartLiveness ==
    [][\A w \in Workers :
         (/\ wpc[w] = "loop" /\ wpc'[w] = "done"
          /\ w = hist.spawned
          /\ monitor_thread = Some(w)
          /\ \A c \in Callers : cpc[c] \in {"idle", "start_sleep"})
            => ~is_running]_vars

\* C37: once stop() has returned True, and until a later start() begins, the
\* history, the two counts, the device cache and the rotation state do not
\* change, however long the tick that was under way.
C37_QuiescenceAfterStop ==
    [][(/\ \A c \in Callers : cpc[c] = "idle" /\ cpc'[c] = "idle"
        /\ cloc["main"] = [op |-> "stop", ret |-> Some(TRUE)])
          => UNCHANGED <<snapshots, counts, device_cache, rotation>>]_vars

\* C38: in every reachable state the cursor is at least 0 and less than
\* max(1, length of the rotation list), and every selector call over a
\* non-empty list starts the probe of a device of that list.
C38_CursorBounds ==
    /\ [](/\ 0 <= quality_test_device_index
          /\ quality_test_device_index
                < Max(1, Len(last_tested_device_list)))
    /\ [][\A w \in Workers :
            (wpc[w] = "select" /\ wpc'[w] # "select"
               /\ wloc[w].devices # <<>>)
              => /\ wpc'[w] = "probe"
                 /\ \E i \in 1..Len(wloc[w].devices) :
                       wloc'[w].device_to_test = Some(wloc[w].devices[i])]_vars

\* The cursor stood at the last of three devices when the list shrank to
\* two; the selector then returned the first of the two.
C38_Witness ==
    /\ Len(snapshots) >= 3
    /\ snapshots[2].device_count = 3
    /\ snapshots[2].tested_device_ip = Some(2)
    /\ snapshots[3].device_count = 2
    /\ snapshots[3].tested_device_ip = Some(1)
    /\ quality_test_device_index = 1
    /\ Len(last_tested_device_list) = 2

\* C39: the rotation advances whatever the probe's outcome.  The end of a
\* probe, by a measurement, by a report of an unreachable device or by an
\* exception, leaves the cursor and the rotation list as the selector set
\* them; and a selector call that finds the membership unchanged returns
\* the device that follows, in address order and wrapping, the one returned
\* by the call before it.
C39_AdvanceWhateverOutcome ==
    /\ [][\A w \in Workers :
            (wpc[w] = "probe" /\ wpc'[w] # "probe")
              => UNCHANGED rotation]_vars
    /\ [][\A w \in Workers :
            (/\ wpc[w] = "select" /\ wpc'[w] = "probe"
             /\ hist.selected # <<>>
             /\ Ips(SortedByIp(wloc[w].devices))
                   = Ips(last_tested_device_list))
              => LET order == Ips(last_tested_device_list)
                     K == Len(order)
                     before == hist.selected[Len(hist.selected)]
                 IN  \E i \in 1..K :
                        /\ order[i] = before
                        /\ Get(wloc'[w].device_to_test).ip
                              = order[(i % K) + 1]]_vars

\* Three devices: the probe of the first raised, the second was reported
\* unreachable, and the third was then selected and measured.
C39_Witness ==
    /\ Len(snapshots) >= 3
    /\ \A i \in 1..3 : snapshots[i].device_count = 3
    /\ IsNone(snapshots[1].tested_device_ip)
    /\ snapshots[2].tested_device_ip = Some(2)
    /\ snapshots[2].avg_packet_loss = TotalLoss
    /\ snapshots[3].tested_device_ip = Some(3)
    /\ snapshots[3].avg_latency_ms > 0
    /\ hist.selected = <<1, 2, 3>>

====
